---- MODULE Spec2Model ----
(***************************************************************************)
(* Procedural chunk generation of js-minecraft-clone (src/js/chunkGen.js,  *)
(* src/js/perlin.js, src/js/config.js), the voxel index of                 *)
(* src/js/lighting.js and the generation worker.                           *)
(*                                                                         *)
(* Numbers.  JavaScript doubles are modelled in fixed point:               *)
(*   - noise values, climate values, blend weights and probabilities are   *)
(*     integers in thousandths (1000 = 1.0);                               *)
(*   - noise coordinates are integers in ten-thousandths (Q = 10000);      *)
(*   - heights are computed in thousandths of a block and floored to       *)
(*     whole blocks exactly where the code calls Math.floor.               *)
(* NaN is the one non-number the generator can meet (a malformed opts      *)
(* field); it is the value NaN below and every operation that can receive  *)
(* it treats it as JavaScript does (every comparison with NaN is false).   *)
(***************************************************************************)
EXTENDS Integers, Sequences, FiniteSets, TLC

\* ------------------------------------------------------------------------
\* Bounds of the model (not program constants).
\* ------------------------------------------------------------------------
\* Columns per chunk side.  The program uses 16 (chunkGen.js:8); the model
\* keeps every index computation symbolic in CHUNK_SIZE and checks a small
\* chunk.
CHUNK_SIZE == 2

\* ------------------------------------------------------------------------
\* Program constants (chunkGen.js:8-11)
\* ------------------------------------------------------------------------
MIN_Y == -64
MAX_Y == 319
HEIGHT == MAX_Y - MIN_Y + 1

\* Fixed-point units.
ONE == 10 * 100
Q == 10 * ONE

NaN == 0 - 888888

IsNaN(v) == v = NaN

\* JavaScript comparisons of numbers one of which may be NaN.
Le(a, b) == ~IsNaN(a) /\ ~IsNaN(b) /\ a <= b
Lt(a, b) == ~IsNaN(a) /\ ~IsNaN(b) /\ a < b
Ge(a, b) == ~IsNaN(a) /\ ~IsNaN(b) /\ a >= b
Gt(a, b) == ~IsNaN(a) /\ ~IsNaN(b) /\ a > b

\* Biome IDs (chunkGen.js:20-30)
BIOME ==
  [PLAINS |-> 0, FOREST |-> 1, DESERT |-> 2, MOUNTAINS |-> 3, SNOWY |-> 4,
   BEACH |-> 5, OCEAN |-> 6, SWAMP |-> 7, SAVANNA |-> 8]

\* config.js:12-20 (scale in ten-thousandths, persistence/lacunarity in
\* thousandths, the rest in blocks)
TERRAIN ==
  [scale |-> 100, octaves |-> 5, persistence |-> 500, lacunarity |-> 2000,
   amplitude |-> 80, baseHeight |-> 64, seaLevel |-> 62]

\* config.js:23-29 (scale in ten-thousandths, threshold in thousandths;
\* openToSurface: 1 = true)
CAVES ==
  [scale |-> 600, octaves |-> 3, threshold |-> 500, maxY |-> 72,
   openToSurface |-> 1]

\* config.js:32-36 (probability in thousandths)
TREES == [probability |-> 40, minHeight |-> 4, maxHeight |-> 6]

\* config.js:39-47 (scales in ten-thousandths)
BIOMES ==
  [temperatureScale |-> 15, humidityScale |-> 25, continentScale |-> 80,
   erosionScale |-> 40, vegetationScale |-> 8000, treeClusterScale |-> 250]

\* chunkGen.js:237-244 applied to config.js:50-55: <<oreId, minY, maxY,
\* veinSize, rarity (thousandths)>>
ORES ==
  << <<10, -64, 128, 6, 80>>, <<11, -64, 64, 5, 60>>,
     <<12, -64, 32, 4, 15>>, <<13, -64, 16, 4, 5>> >>

\* chunkGen.js:42
BIOME_BLEND_RADIUS == 16

\* ------------------------------------------------------------------------
\* Arithmetic helpers
\* ------------------------------------------------------------------------
Max(a, b) == IF a >= b THEN a ELSE b
Min(a, b) == IF a <= b THEN a ELSE b
Abs(a) == IF a < 0 THEN -a ELSE a

\* chunkGen.js:44-46.  t and the result of smoothstep are in thousandths.
clamp(v, a, b) == Max(a, Min(b, v))
lerp(a, b, t) == a + ((b - a) * clamp(t, 0, ONE)) \div ONE
smoothstep(t) == (((t * t) \div ONE) * (3 * ONE - 2 * t)) \div ONE

\* v * m / 1000 for m in thousandths, without leaving 32 bits.
MulK(v, m) == (v \div ONE) * m + ((v % ONE) * m) \div ONE

\* Math.floor of a value in thousandths, in whole units.
Floor(v) == v \div ONE

\* chunkGen.js:49-54: a position hash in [0, 1).  The 32-bit avalanche of
\* the source is replaced by a small integer mix with the same signature;
\* the result is in thousandths, 0..999.
seededRandom(x, z, seed) ==
  LET h == (seed * 7 + x * 3761 + z * 6263) % 10007
  IN  ((h * 1277 + (h \div 13) * 31) % 1000)

\* chunkGen.js:57-61
hash3(x, y, z) ==
  LET h == (x * 3761 + y * 6263 + z * 1277) % 10007
  IN  ((h * 1103 + (h \div 16) * 29) % 1000)

\* ------------------------------------------------------------------------
\* perlin.js
\* ------------------------------------------------------------------------
\* perlin.js:36-69 for the instance createPerlin(pseed): a deterministic
\* field over (x, y, z) with values in [-1, 1].  The gradient lattice is
\* replaced by an integer mix of the instance seed and the coordinates
\* (ten-thousandths); the value is in thousandths.
noise3(pseed, x, y, z) ==
  LET h1 == (pseed * 7919 + (x % 9973) * 31 + (y % 9973) * 131
             + (z % 9973) * 17) % 1009
      h2 == (h1 * h1 + (x % 21) + 3 * (z % 21) + 5 * (y % 21)) % 21
  IN  (h2 - 10) * 100

\* perlin.js:71-84.  The loop, then total / max; with no octave the
\* quotient is 0 / 0.
RECURSIVE octaveLoop(_, _, _, _, _, _, _, _, _, _, _)
octaveLoop(pseed, x, y, z, i, octaves, persistence, lacunarity, amplitude, frequency, acc) ==
  IF i >= octaves THEN acc
  ELSE octaveLoop(pseed, x, y, z, i + 1, octaves, persistence, lacunarity,
                  (amplitude * persistence) \div ONE,
                  (frequency * lacunarity) \div ONE,
                  [total |-> acc.total
                             + (noise3(pseed, MulK(x, frequency),
                                       MulK(y, frequency),
                                       MulK(z, frequency)) * amplitude)
                               \div ONE,
                   max |-> acc.max + amplitude])

octaveNoise(pseed, x, y, z, octaves, persistence, lacunarity) ==
  LET r == octaveLoop(pseed, x, y, z, 0, octaves, persistence, lacunarity,
                      ONE, ONE, [total |-> 0, max |-> 0])
  IN  IF r.max = 0 THEN NaN ELSE (r.total * ONE) \div r.max

\* ------------------------------------------------------------------------
\* chunkGen.js: biome tables (thousandths unless said otherwise)
\* ------------------------------------------------------------------------
\* getBiome with the altitude test ahead of the mountain test.
getBiome_altitudeFirst(temperature, humidity, continentalness, erosion, height, seaLevel) ==
  IF continentalness < 250 THEN BIOME.OCEAN
  ELSE IF continentalness < 380 /\ height <= seaLevel + 4
          /\ height >= seaLevel - 3
    THEN (IF humidity > 700 /\ temperature > 400
          THEN BIOME.SWAMP ELSE BIOME.BEACH)
  ELSE IF height > seaLevel + 60
    THEN (IF temperature < 400 THEN BIOME.SNOWY ELSE BIOME.MOUNTAINS)
  ELSE IF continentalness > 850 /\ erosion < 400
    THEN (IF temperature < 350 THEN BIOME.SNOWY ELSE BIOME.MOUNTAINS)
  ELSE IF temperature < 280 THEN BIOME.SNOWY
  ELSE IF temperature < 450
    THEN (IF humidity > 550 THEN BIOME.FOREST
          ELSE IF humidity > 350 THEN BIOME.PLAINS ELSE BIOME.SNOWY)
  ELSE IF temperature < 650
    THEN (IF humidity > 650 THEN BIOME.SWAMP
          ELSE IF humidity > 450 THEN BIOME.FOREST ELSE BIOME.PLAINS)
  ELSE IF temperature < 800
    THEN (IF humidity > 550 THEN BIOME.SWAMP
          ELSE IF humidity > 350 THEN BIOME.SAVANNA ELSE BIOME.PLAINS)
  ELSE IF humidity > 500 THEN BIOME.SAVANNA
  ELSE IF humidity > 250 THEN BIOME.SAVANNA
  ELSE BIOME.DESERT

\* chunkGen.js:64-121.  height may be NaN-free here: it is a floored,
\* clamped height.
getBiome(temperature, humidity, continentalness, erosion, height, seaLevel) ==
  IF continentalness < 250 THEN BIOME.OCEAN
  ELSE IF continentalness < 380 /\ height <= seaLevel + 4
          /\ height >= seaLevel - 3
    THEN (IF humidity > 700 /\ temperature > 400
          THEN BIOME.SWAMP ELSE BIOME.BEACH)
  ELSE IF continentalness > 850 /\ erosion < 400
    THEN (IF temperature < 350 THEN BIOME.SNOWY ELSE BIOME.MOUNTAINS)
  ELSE IF height > seaLevel + 60
    THEN (IF temperature < 400 THEN BIOME.SNOWY ELSE BIOME.MOUNTAINS)
  ELSE IF temperature < 280 THEN BIOME.SNOWY
  ELSE IF temperature < 450
    THEN (IF humidity > 550 THEN BIOME.FOREST
          ELSE IF humidity > 350 THEN BIOME.PLAINS ELSE BIOME.SNOWY)
  ELSE IF temperature < 650
    THEN (IF humidity > 650 THEN BIOME.SWAMP
          ELSE IF humidity > 450 THEN BIOME.FOREST ELSE BIOME.PLAINS)
  ELSE IF temperature < 800
    THEN (IF humidity > 550 THEN BIOME.SWAMP
          ELSE IF humidity > 350 THEN BIOME.SAVANNA ELSE BIOME.PLAINS)
  ELSE IF humidity > 500 THEN BIOME.SAVANNA
  ELSE IF humidity > 250 THEN BIOME.SAVANNA
  ELSE BIOME.DESERT

\* chunkGen.js:124-137
getBiomeTerrainScaleBase(biome) ==
  CASE biome = BIOME.OCEAN -> 250
    [] biome = BIOME.BEACH -> 80
    [] biome = BIOME.PLAINS -> 350
    [] biome = BIOME.FOREST -> 450
    [] biome = BIOME.DESERT -> 300
    [] biome = BIOME.MOUNTAINS -> 1800
    [] biome = BIOME.SNOWY -> 650
    [] biome = BIOME.SWAMP -> 150
    [] biome = BIOME.SAVANNA -> 400
    [] OTHER -> 400

\* chunkGen.js:147-160 (blocks)
getBiomeHeightOffset(biome) ==
  CASE biome = BIOME.OCEAN -> -15
    [] biome = BIOME.BEACH -> 0
    [] biome = BIOME.PLAINS -> 5
    [] biome = BIOME.FOREST -> 8
    [] biome = BIOME.DESERT -> 3
    [] biome = BIOME.MOUNTAINS -> 40
    [] biome = BIOME.SNOWY -> 12
    [] biome = BIOME.SWAMP -> -2
    [] biome = BIOME.SAVANNA -> 6
    [] OTHER -> 5

\* chunkGen.js:163-183 (block ids)
getSurfaceBlock(biome, underwater) ==
  IF underwater
  THEN CASE biome = BIOME.DESERT -> 16
         [] biome = BIOME.SWAMP -> 15
         [] biome = BIOME.OCEAN -> 9
         [] OTHER -> 5
  ELSE CASE biome = BIOME.DESERT -> 5
         [] biome = BIOME.BEACH -> 5
         [] biome = BIOME.SNOWY -> 8
         [] OTHER -> 3

\* chunkGen.js:186-193
getSubsurfaceBlock(biome, depth) ==
  CASE biome = BIOME.DESERT -> (IF depth < 4 THEN 5 ELSE 1)
    [] biome = BIOME.BEACH -> (IF depth < 3 THEN 5 ELSE 2)
    [] biome = BIOME.SWAMP -> (IF depth < 2 THEN 15 ELSE 2)
    [] OTHER -> 2

\* chunkGen.js:196-209
getBiomeVegetationDensity(biome) ==
  CASE biome = BIOME.FOREST -> 650
    [] biome = BIOME.PLAINS -> 350
    [] biome = BIOME.SWAMP -> 550
    [] biome = BIOME.SAVANNA -> 200
    [] biome = BIOME.SNOWY -> 80
    [] biome = BIOME.MOUNTAINS -> 150
    [] biome = BIOME.DESERT -> 20
    [] biome = BIOME.BEACH -> 0
    [] biome = BIOME.OCEAN -> 0
    [] OTHER -> 250

\* chunkGen.js:212-225, in millionths
getBiomeTreeDensity(biome) ==
  CASE biome = BIOME.FOREST -> 90000
    [] biome = BIOME.PLAINS -> 3000
    [] biome = BIOME.SWAMP -> 30000
    [] biome = BIOME.SAVANNA -> 6000
    [] biome = BIOME.SNOWY -> 12000
    [] biome = BIOME.MOUNTAINS -> 4000
    [] biome = BIOME.DESERT -> 0
    [] biome = BIOME.BEACH -> 0
    [] biome = BIOME.OCEAN -> 0
    [] OTHER -> 8000

\* ------------------------------------------------------------------------
\* Calls.  A call is generateChunk(chunkX, chunkZ, seed, opts); opts is
\* either omitted or an object holding some of the fifteen fields.
\* ------------------------------------------------------------------------
EmptyOpts == [f \in {} |-> 0]

\* chunkGen.js:256: the default parameter opts = {} replaces an omitted
\* (undefined) argument only.
optsOrDefault(arg) == IF arg.kind = "undefined" THEN EmptyOpts ELSE arg.opts

\* chunkGen.js:263: opts.scale is the first property read of opts; with
\* opts = null it throws a TypeError.
throwsTypeError(arg) == arg.kind = "null"

\* chunkGen.js:263-284: opts.f ?? default.
Nullish(o, f, default) == IF f \in DOMAIN o THEN o[f] ELSE default

\* chunkGen.js:262-284
Params(arg) ==
  LET o == optsOrDefault(arg)
  IN  [scale |-> Nullish(o, "scale", TERRAIN.scale),
       octaves |-> Nullish(o, "octaves", TERRAIN.octaves),
       persistence |-> Nullish(o, "persistence", TERRAIN.persistence),
       lacunarity |-> Nullish(o, "lacunarity", TERRAIN.lacunarity),
       amplitude |-> Nullish(o, "amplitude", TERRAIN.amplitude),
       baseHeight |-> Nullish(o, "baseHeight", TERRAIN.baseHeight),
       seaLevel |-> Nullish(o, "seaLevel", TERRAIN.seaLevel),
       caveScale |-> Nullish(o, "caveScale", CAVES.scale),
       caveOctaves |-> Nullish(o, "caveOctaves", CAVES.octaves),
       caveThreshold |-> Nullish(o, "caveThreshold", CAVES.threshold),
       caveMaxY |-> Nullish(o, "caveMaxY", CAVES.maxY),
       caveOpenToSurface |->
         Nullish(o, "caveOpenToSurface", CAVES.openToSurface),
       treeProbability |-> Nullish(o, "treeProbability", TREES.probability),
       treeMinHeight |-> Nullish(o, "treeMinHeight", TREES.minHeight),
       treeMaxHeight |-> Nullish(o, "treeMaxHeight", TREES.maxHeight)]

\* The closure of one generateChunk call: seed, resolved parameters and the
\* chunk's world origin (chunkGen.js:290-291).
Ctx(arg) ==
  [seed |-> arg.seed, p |-> Params(arg),
   chunkWorldX |-> arg.chunkX * CHUNK_SIZE,
   chunkWorldZ |-> arg.chunkZ * CHUNK_SIZE]

\* chunkGen.js:257-260: the four noise instances.
perlin(seed) == seed
perlin2(seed) == seed + 1000
perlin3(seed) == seed + 2000
perlin4(seed) == seed + 3000

\* ------------------------------------------------------------------------
\* Climate of a world column.  The source repeats these formulas in PHASE 1
\* (313-348), computeBiomeAndScaleAt (373-395), getBiomeAt (779-794) and
\* getBiomeAtWorld (1072-1087); the noise scale is the one thing that varies
\* between the copies, so it is a parameter here.
\* ------------------------------------------------------------------------
\* chunkGen.js:315-324
temperatureAt(seed, wx, wz, tScale) ==
  LET warpX == octaveNoise(perlin2(seed), wx * 10, 0, wz * 10, 2, 500, 2000) * 50
      warpZ == octaveNoise(perlin2(seed), wx * 10, 100 * Q, wz * 10, 2, 500, 2000) * 50
      tempNoise == octaveNoise(perlin(seed),
                               ((wx * ONE + warpX) * tScale) \div ONE, 0,
                               ((wz * ONE + warpZ) * tScale) \div ONE,
                               4, 500, 2000)
  IN  clamp((tempNoise + ONE) \div 2, 0, ONE)

\* chunkGen.js:327-336
humidityAt(seed, wx, wz, hScale) ==
  LET humidWarpX == octaveNoise(perlin(seed), wx * 15, 50 * Q, wz * 15, 2, 500, 2000) * 40
      humidWarpZ == octaveNoise(perlin(seed), wx * 15, 150 * Q, wz * 15, 2, 500, 2000) * 40
      humidNoise == octaveNoise(perlin2(seed),
                                ((wx * ONE + humidWarpX) * hScale) \div ONE, 0,
                                ((wz * ONE + humidWarpZ) * hScale) \div ONE,
                                4, 500, 2000)
  IN  clamp((humidNoise + ONE) \div 2, 0, ONE)

\* chunkGen.js:339-344
continentalnessAt(seed, wx, wz, cScale) ==
  LET contBase == octaveNoise(perlin(seed), wx * cScale, 200 * Q, wz * cScale, 5, 550, 2000)
      ridgeNoise == ONE - Abs(octaveNoise(perlin2(seed), wx * 30, 300 * Q, wz * 30, 3, 500, 2000))
      ridgeContribution == MulK(MulK(ridgeNoise, ridgeNoise), 300)
  IN  clamp(contBase + 400 + ridgeContribution, 0, 1500)

\* chunkGen.js:347-348
erosionAt(seed, wx, wz, eScale) ==
  LET erosionNoise == octaveNoise(perlin3(seed), wx * eScale, 0, wz * eScale, 3, 500, 2000)
  IN  clamp((erosionNoise + ONE) \div 2, 0, ONE)

\* chunkGen.js:352-356
vegetationDensityAt(seed, wx, wz) ==
  LET vs == BIOMES.vegetationScale
      vegNoise1 == octaveNoise(perlin4(seed), wx * vs, 0, wz * vs, 2, 500, 2000)
      vegNoise2 == octaveNoise(perlin4(seed), (wx * vs * 3) \div 10, 50 * Q,
                               (wz * vs * 3) \div 10, 2, 500, 2000)
      combinedVeg == (vegNoise1 * 6 + vegNoise2 * 4) \div 10
  IN  clamp(((combinedVeg + 300) * 8) \div 10, 0, ONE)

\* chunkGen.js:359-361 and 809-811 (the same scales, written out there)
treeDensityAt(seed, wx, wz) ==
  LET ts == BIOMES.treeClusterScale
      treeNoise1 == octaveNoise(perlin4(seed), wx * ts, 100 * Q, wz * ts, 3, 500, 2000)
      treeNoise2 == octaveNoise(perlin(seed), (wx * ts * 25) \div 10, 150 * Q,
                                (wz * ts * 25) \div 10, 2, 600, 2000)
  IN  clamp(((treeNoise1 * 7 + treeNoise2 * 3) \div 10 + ONE) \div 2, 0, ONE)

\* The ramp fraction with the divisor of the coastal range in every range.
continentT_coastalDivisor(cont) ==
  IF cont < 400 THEN ((cont - 250) * ONE) \div 150
  ELSE IF cont < 800 THEN ((cont - 400) * ONE) \div 150
  ELSE ((cont - 800) * ONE) \div 150

\* chunkGen.js:548, 552, 556 and 1099, 1102, 1105: the fraction t of the
\* range continentalness falls in, from the coastal range on.
continentT(cont) ==
  IF cont < 400 THEN ((cont - 250) * ONE) \div 150
  ELSE IF cont < 800 THEN ((cont - 400) * ONE) \div 400
  ELSE ((cont - 800) * ONE) \div 500

\* chunkGen.js:543-559 (also 402-414, 474-486, 754-766): continent height in
\* thousandths of a block.
continentHeightOf(cont, seaLevel, baseHeight) ==
  IF cont < 250
    THEN (seaLevel - 20) * ONE - (250 - cont) * 40
  ELSE IF cont < 400
    THEN lerp((seaLevel - 20) * ONE, (seaLevel + 5) * ONE,
              smoothstep(continentT(cont)))
  ELSE IF cont < 800
    THEN lerp((seaLevel + 5) * ONE, (baseHeight + 20) * ONE,
              continentT(cont))
  ELSE (baseHeight + 20) * ONE + continentT(cont) * 50

\* chunkGen.js:398-400, 488, 531: the base terrain noise of a column.
baseNoiseAt(g, wx, wz) ==
  octaveNoise(perlin(g.seed), wx * g.p.scale, 0, wz * g.p.scale,
              g.p.octaves, g.p.persistence, g.p.lacunarity)

\* chunkGen.js:534, 742: detail noise (already multiplied by 0.25).
detailNoiseAt(g, wx, wz) ==
  octaveNoise(perlin2(g.seed), (wx * g.p.scale * 25) \div 10, 0,
              (wz * g.p.scale * 25) \div 10, 3, 500, 2000) \div 4

\* chunkGen.js:416, 489, 562: Math.floor(clamp(contHeight + baseN *
\* amplitude * 0.3, MIN_Y, MAX_Y)).
prelimHeightOf(contHeight, baseN, amplitude) ==
  Floor(clamp(contHeight + (baseN * amplitude * 3) \div 10,
              MIN_Y * ONE, MAX_Y * ONE))

\* ------------------------------------------------------------------------
\* The calls the model makes.  ArgList is the finite set of argument tuples
\* generateChunk is called with; a call is named by its index in ArgList.
\* ------------------------------------------------------------------------
ArgList ==
  << [chunkX |-> 0, chunkZ |-> 0, seed |-> 0, kind |-> "undefined",
      opts |-> EmptyOpts],
     [chunkX |-> 0, chunkZ |-> 0, seed |-> 0, kind |-> "object",
      opts |-> [treeProbability |-> 1200 * ONE]],
     [chunkX |-> 1, chunkZ |-> 0, seed |-> 0, kind |-> "object",
      opts |-> [treeProbability |-> 1200 * ONE]],
     [chunkX |-> 0, chunkZ |-> -1, seed |-> 2, kind |-> "object",
      opts |-> [baseHeight |-> 300, treeProbability |-> 1200 * ONE]],
     [chunkX |-> 0, chunkZ |-> 0, seed |-> 0, kind |-> "object",
      opts |-> [caveMaxY |-> NaN]],
     [chunkX |-> 0, chunkZ |-> 0, seed |-> 0, kind |-> "null",
      opts |-> EmptyOpts],
     [chunkX |-> 1, chunkZ |-> 0, seed |-> 0, kind |-> "object",
      opts |-> [caveOpenToSurface |-> 0]],
     [chunkX |-> 0, chunkZ |-> 0, seed |-> 3, kind |-> "object",
      opts |-> [amplitude |-> 20000, treeProbability |-> 1200 * ONE]],
     [chunkX |-> -2, chunkZ |-> 1, seed |-> 7, kind |-> "object",
      opts |-> [treeProbability |-> 1200 * ONE]] >>

Args == 1 .. Len(ArgList)

\* The calls that get past the parameter defaults.
Runs == {a \in Args : ~throwsTypeError(ArgList[a])}

NCols == CHUNK_SIZE * CHUNK_SIZE
\* chunkGen.js:271
Size == CHUNK_SIZE * CHUNK_SIZE * HEIGHT
Cols == 0 .. (NCols - 1)

\* Local column coordinates of idx = x * CHUNK_SIZE + z (chunkGen.js:311).
ColX(idx) == idx \div CHUNK_SIZE
ColZ(idx) == idx % CHUNK_SIZE
WorldX(g, idx) == g.chunkWorldX + ColX(idx)
WorldZ(g, idx) == g.chunkWorldZ + ColZ(idx)

\* chunkGen.js:434, 466, 735, 775: is the world column inside this chunk?
InChunk(g, wx, wz) ==
  LET lx == wx - g.chunkWorldX
      lz == wz - g.chunkWorldZ
  IN  lx >= 0 /\ lx < CHUNK_SIZE /\ lz >= 0 /\ lz < CHUNK_SIZE

LocalIdx(g, wx, wz) ==
  (wx - g.chunkWorldX) * CHUNK_SIZE + (wz - g.chunkWorldZ)

\* ------------------------------------------------------------------------
\* PHASE 1 (chunkGen.js:307-363): what the loop body computes for a column.
\* ------------------------------------------------------------------------
climateColumn(g, wx, wz) ==
  [temperature |-> temperatureAt(g.seed, wx, wz, BIOMES.temperatureScale),
   humidity |-> humidityAt(g.seed, wx, wz, BIOMES.humidityScale),
   continentalness |->
     continentalnessAt(g.seed, wx, wz, BIOMES.continentScale),
   erosion |-> erosionAt(g.seed, wx, wz, BIOMES.erosionScale),
   vegetationDensity |-> vegetationDensityAt(g.seed, wx, wz),
   treeDensity |-> treeDensityAt(g.seed, wx, wz)]

\* chunkGen.js:371-427
computeBiomeAndScaleAt(g, wx, wz) ==
  LET temp == temperatureAt(g.seed, wx, wz, BIOMES.temperatureScale)
      humid == humidityAt(g.seed, wx, wz, BIOMES.humidityScale)
      cont == continentalnessAt(g.seed, wx, wz, BIOMES.continentScale)
      eros == erosionAt(g.seed, wx, wz, BIOMES.erosionScale)
      baseN == baseNoiseAt(g, wx, wz)
      contHeight == continentHeightOf(cont, g.p.seaLevel, g.p.baseHeight)
      prelimH == prelimHeightOf(contHeight, baseN, g.p.amplitude)
      biome == getBiome(temp, humid, cont, eros, prelimH, g.p.seaLevel)
  IN  [terrainScale |-> getBiomeTerrainScaleBase(biome),
       heightOffset |-> getBiomeHeightOffset(biome),
       erosion |-> eros]

\* The noise samples PHASE 2 takes at a column of the chunk
\* (chunkGen.js:531-534, 588-589, 596).
columnNoise(g, wx, wz) ==
  [baseNoise |-> baseNoiseAt(g, wx, wz),
   detailNoise |-> detailNoiseAt(g, wx, wz),
   mountainNoise |->
     Abs(octaveNoise(perlin(g.seed), wx * 150, 0, wz * 150, 4, 500, 2000)),
   peakNoise |->
     octaveNoise(perlin2(g.seed), wx * 300, 50 * Q, wz * 300, 2, 500, 2000),
   oceanFloorNoise |->
     octaveNoise(perlin(g.seed), wx * 200, 0, wz * 200, 2, 500, 2000)]

\* chunkGen.js:442-459: the sample grid of getBlendedTerrainParams.  Sample
\* k of the double loop has offset (SampleDx(k), SampleDz(k)); SampleWeight
\* is smoothWeight, or 0 for a sample the loop skips.
sampleStep == 4
SamplesPerAxis == (2 * BIOME_BLEND_RADIUS) \div sampleStep + 1
SampleIds == 0 .. (SamplesPerAxis * SamplesPerAxis - 1)
SampleDx(k) == sampleStep * (k \div SamplesPerAxis) - BIOME_BLEND_RADIUS
SampleDz(k) == sampleStep * (k % SamplesPerAxis) - BIOME_BLEND_RADIUS
SampleWeight(k) ==
  LET d2 == SampleDx(k) * SampleDx(k) + SampleDz(k) * SampleDz(k)
      r2 == BIOME_BLEND_RADIUS * BIOME_BLEND_RADIUS
      weight == ONE - (d2 * ONE) \div r2
      smoothWeight == (weight * weight) \div ONE
  IN  IF d2 > r2 \/ smoothWeight <= 1 THEN 0 ELSE smoothWeight

\* ------------------------------------------------------------------------
\* Noise samples of every call of ArgList, evaluated once.  Each table
\* entry is the value of the operator named in it at the column the code
\* evaluates it at; the phases below read the tables where the code calls
\* the noise.
\* ------------------------------------------------------------------------
ClimateTable ==
  [a \in Runs |->
    LET g == Ctx(ArgList[a])
    IN  [idx \in Cols |-> climateColumn(g, WorldX(g, idx), WorldZ(g, idx))]]

NoiseTable ==
  [a \in Runs |->
    LET g == Ctx(ArgList[a])
    IN  [idx \in Cols |-> columnNoise(g, WorldX(g, idx), WorldZ(g, idx))]]

NoSample == [terrainScale |-> 0, heightOffset |-> 0, erosion |-> 0]

\* computeBiomeAndScaleAt at the samples that fall outside the chunk.
SampleTable ==
  [a \in Runs |->
    LET g == Ctx(ArgList[a])
    IN  [idx \in Cols |->
          [k \in SampleIds |->
            LET sx == WorldX(g, idx) + SampleDx(k)
                sz == WorldZ(g, idx) + SampleDz(k)
            IN  IF SampleWeight(k) = 0 \/ InChunk(g, sx, sz)
                THEN NoSample
                ELSE computeBiomeAndScaleAt(g, sx, sz)]]]

\* ------------------------------------------------------------------------
\* The module-level scratch caches (chunkGen.js:33-39), all zero when the
\* module is loaded.
\* ------------------------------------------------------------------------
ZeroCols == [idx \in Cols |-> 0]

FreshCaches ==
  [heightMapCache |-> ZeroCols, biomeMapCache |-> ZeroCols,
   temperatureCache |-> ZeroCols, humidityCache |-> ZeroCols,
   continentalnessCache |-> ZeroCols, vegetationDensityCache |-> ZeroCols,
   treeDensityCache |-> ZeroCols]

\* A PHASE 1 that fills temperatureCache only where it is still zero, and
\* so keeps what an earlier call stored there.
Phase1Caches_keepsTemperature(a, c) ==
  [c EXCEPT
     !.temperatureCache =
        [idx \in Cols |-> IF c.temperatureCache[idx] = 0
                            THEN ClimateTable[a][idx].temperature
                            ELSE c.temperatureCache[idx]],
     !.humidityCache = [idx \in Cols |-> ClimateTable[a][idx].humidity],
     !.continentalnessCache =
        [idx \in Cols |-> ClimateTable[a][idx].continentalness],
     !.vegetationDensityCache =
        [idx \in Cols |-> ClimateTable[a][idx].vegetationDensity],
     !.treeDensityCache = [idx \in Cols |-> ClimateTable[a][idx].treeDensity]]

\* A PHASE 1 without the store of line 356: vegetationDensityCache keeps
\* its earlier contents.
Phase1Caches_skipsVegetation(a, c) ==
  [c EXCEPT
     !.temperatureCache = [idx \in Cols |-> ClimateTable[a][idx].temperature],
     !.humidityCache = [idx \in Cols |-> ClimateTable[a][idx].humidity],
     !.continentalnessCache =
        [idx \in Cols |-> ClimateTable[a][idx].continentalness],
     !.treeDensityCache = [idx \in Cols |-> ClimateTable[a][idx].treeDensity]]

\* PHASE 1 (chunkGen.js:305-363): every entry of the five climate caches
\* and of the call's own erosionCache is written.
Phase1Caches(a, c) ==
  [c EXCEPT
     !.temperatureCache = [idx \in Cols |-> ClimateTable[a][idx].temperature],
     !.humidityCache = [idx \in Cols |-> ClimateTable[a][idx].humidity],
     !.continentalnessCache =
        [idx \in Cols |-> ClimateTable[a][idx].continentalness],
     !.vegetationDensityCache =
        [idx \in Cols |-> ClimateTable[a][idx].vegetationDensity],
     !.treeDensityCache = [idx \in Cols |-> ClimateTable[a][idx].treeDensity]]

Phase1Erosion(a) == [idx \in Cols |-> ClimateTable[a][idx].erosion]

\* chunkGen.js:466-496: a blend sample inside the chunk, from the caches.
cachedSample(a, c, e, sampleIdx) ==
  LET g == Ctx(ArgList[a])
      temp == c.temperatureCache[sampleIdx]
      humid == c.humidityCache[sampleIdx]
      cont == c.continentalnessCache[sampleIdx]
      eros == e[sampleIdx]
      contHeight == continentHeightOf(cont, g.p.seaLevel, g.p.baseHeight)
      baseN == NoiseTable[a][sampleIdx].baseNoise
      prelimH == prelimHeightOf(contHeight, baseN, g.p.amplitude)
      biome == getBiome(temp, humid, cont, eros, prelimH, g.p.seaLevel)
  IN  [terrainScale |-> getBiomeTerrainScaleBase(biome),
       heightOffset |-> getBiomeHeightOffset(biome),
       erosion |-> eros]

\* chunkGen.js:499-504: sampleData weighted by smoothWeight w, as the four
\* increments of the running sums; nothing for a sample the loop skips.
weightedSample(sampleData, w) ==
  IF w = 0
  THEN [blendedScale |-> 0, blendedOffset |-> 0, blendedErosion |-> 0,
        totalWeight |-> 0]
  ELSE [blendedScale |-> sampleData.terrainScale * w,
        blendedOffset |-> sampleData.heightOffset * w,
        blendedErosion |-> sampleData.erosion * w,
        totalWeight |-> w]

\* chunkGen.js:461-505: what sample k adds to the four running sums.
sampleTerm(a, c, e, idx, k) ==
  LET g == Ctx(ArgList[a])
      sx == WorldX(g, idx) + SampleDx(k)
      sz == WorldZ(g, idx) + SampleDz(k)
  IN  weightedSample(IF InChunk(g, sx, sz)
                     THEN cachedSample(a, c, e, LocalIdx(g, sx, sz))
                     ELSE SampleTable[a][idx][k],
                     SampleWeight(k))

AddTerms(p, q) ==
  [blendedScale |-> p.blendedScale + q.blendedScale,
   blendedOffset |-> p.blendedOffset + q.blendedOffset,
   blendedErosion |-> p.blendedErosion + q.blendedErosion,
   totalWeight |-> p.totalWeight + q.totalWeight]

\* chunkGen.js:446-506: the inner loop over dz for row i of the grid.
RECURSIVE blendRow(_, _, _, _, _, _)
blendRow(a, c, e, idx, i, j) ==
  IF j >= SamplesPerAxis
  THEN [blendedScale |-> 0, blendedOffset |-> 0, blendedErosion |-> 0,
        totalWeight |-> 0]
  ELSE AddTerms(sampleTerm(a, c, e, idx, i * SamplesPerAxis + j),
                blendRow(a, c, e, idx, i, j + 1))

\* chunkGen.js:445-507: the outer loop over dx.
RECURSIVE blendLoop(_, _, _, _, _)
blendLoop(a, c, e, idx, i) ==
  IF i >= SamplesPerAxis
  THEN [blendedScale |-> 0, blendedOffset |-> 0, blendedErosion |-> 0,
        totalWeight |-> 0]
  ELSE AddTerms(blendRow(a, c, e, idx, i, 0),
                blendLoop(a, c, e, idx, i + 1))

\* chunkGen.js:430-520.  terrainScale and erosion in thousandths,
\* heightOffset in thousandths of a block.
blendedOf(r, erosion) ==
  IF r.totalWeight > 0
  THEN [terrainScale |-> r.blendedScale \div r.totalWeight,
        heightOffset |-> (r.blendedOffset * ONE) \div r.totalWeight,
        erosion |-> r.blendedErosion \div r.totalWeight]
  ELSE [terrainScale |-> 400, heightOffset |-> 5 * ONE, erosion |-> erosion]

getBlendedTerrainParams(a, c, e, idx) ==
  blendedOf(blendLoop(a, c, e, idx, 0), e[idx])

\* chunkGen.js:537-566: the biome PHASE 2 stores for a column.
columnBiome(a, c, e, idx) ==
  LET g == Ctx(ArgList[a])
      continentalness == c.continentalnessCache[idx]
      continentHeight ==
        continentHeightOf(continentalness, g.p.seaLevel, g.p.baseHeight)
      prelimHeight == prelimHeightOf(continentHeight,
                                     NoiseTable[a][idx].baseNoise,
                                     g.p.amplitude)
  IN  getBiome(c.temperatureCache[idx], c.humidityCache[idx],
               continentalness, e[idx], prelimHeight, g.p.seaLevel)

\* chunkGen.js:579
mountainInfluenceOf(blendedParams) ==
  IF blendedParams.terrainScale > 1200
  THEN ((blendedParams.terrainScale - 1200) * ONE) \div 600 ELSE 0

\* chunkGen.js:580
oceanInfluenceOf(blendedParams) ==
  IF blendedParams.terrainScale < 200
  THEN ((200 - blendedParams.terrainScale) * ONE) \div 150 ELSE 0

\* chunkGen.js:581
swampInfluenceOf(blendedParams) ==
  IF blendedParams.heightOffset < 0
  THEN Min(ONE, (-blendedParams.heightOffset) \div 3) ELSE 0

\* chunkGen.js:569-607: finalHeight, in thousandths of a block, from the
\* column's noise samples n, its continent height and its blended
\* parameters.
shapedHeight(p, n, continentHeight, blendedParams) ==
  LET blendedScale == MulK(blendedParams.terrainScale,
                           lerp(ONE, 400, blendedParams.erosion))
      blendedOffset == blendedParams.heightOffset
      combinedNoise == n.baseNoise + n.detailNoise
      mountainInfluence == mountainInfluenceOf(blendedParams)
      oceanInfluence == oceanInfluenceOf(blendedParams)
      swampInfluence == swampInfluenceOf(blendedParams)
      h0 == continentHeight
            + MulK(combinedNoise * p.amplitude, blendedScale)
            + blendedOffset \div 2
      mountainBonus == n.mountainNoise * 55 + Max(0, n.peakNoise) * 25
      h1 == IF mountainInfluence > 0
            THEN h0 + MulK(mountainBonus, smoothstep(mountainInfluence))
            ELSE h0
      oceanHeight == (p.seaLevel - 18) * ONE + n.oceanFloorNoise * 12
                     + combinedNoise * 8
      h2 == IF oceanInfluence > 0
            THEN lerp(h1, oceanHeight, smoothstep(oceanInfluence))
            ELSE h1
      swampHeight == (p.seaLevel + 1) * ONE + combinedNoise * 4
                     + n.detailNoise * 2
      h3 == IF swampInfluence > 0
            THEN lerp(h2, swampHeight, MulK(smoothstep(swampInfluence), 700))
            ELSE h2
  IN  h3

\* chunkGen.js:537-607
finalHeightOf(a, c, e, idx) ==
  shapedHeight(Ctx(ArgList[a]).p, NoiseTable[a][idx],
               continentHeightOf(c.continentalnessCache[idx],
                                 Ctx(ArgList[a]).p.seaLevel,
                                 Ctx(ArgList[a]).p.baseHeight),
               getBlendedTerrainParams(a, c, e, idx))

\* The stored height without the clamp of line 609.
columnHeight_unclamped(a, c, e, idx) == Floor(finalHeightOf(a, c, e, idx))

\* chunkGen.js:609: the value stored in heightMapCache.
columnHeight(a, c, e, idx) ==
  Floor(clamp(finalHeightOf(a, c, e, idx), MIN_Y * ONE, MAX_Y * ONE))

\* PHASE 2 (chunkGen.js:522-611)
Phase2Caches(a, c, e) ==
  [c EXCEPT
     !.biomeMapCache = [idx \in Cols |-> columnBiome(a, c, e, idx)],
     !.heightMapCache = [idx \in Cols |-> columnHeight(a, c, e, idx)]]

\* ------------------------------------------------------------------------
\* PHASE 3 (chunkGen.js:616-722): column fill
\* ------------------------------------------------------------------------
\* chunkGen.js:662-675: the ore that replaces stone at a voxel, 0 for none;
\* ore i of ORES onward.
RECURSIVE oreAt(_, _, _, _, _)
oreAt(g, wx, wz, y, i) ==
  IF i > Len(ORES) THEN 0
  ELSE
    LET oreId == ORES[i][1]
        oreNoise == octaveNoise(perlin3(g.seed), wx * 1000 + oreId * 100 * Q,
                                y * 1000, wz * 1000 + oreId * 100 * Q,
                                1, 500, 2000)
    IN  IF y >= ORES[i][2] /\ y <= ORES[i][3]
           /\ oreNoise > ONE - ORES[i][5] * ORES[i][4]
        THEN oreId
        ELSE oreAt(g, wx, wz, y, i + 1)

\* chunkGen.js:681: the main cave noise of a voxel.
caveNoiseAt(g, wx, wz, y) ==
  octaveNoise(perlin(g.seed), wx * g.p.caveScale, y * (g.p.caveScale \div 2),
              wz * g.p.caveScale, g.p.caveOctaves, 500, 2000)

\* chunkGen.js:684-689
spaghettiNoiseAt(g, wx, wz, y) ==
  octaveNoise(perlin2(g.seed), (wx * g.p.caveScale * 7) \div 10,
              (y * g.p.caveScale * 3) \div 10,
              (wz * g.p.caveScale * 7) \div 10, 2, 500, 2000)

\* The voxel noise of every call, evaluated once, at the voxels where the
\* fill can ask for it (ores only inside some ore's range, caves only at or
\* below caveMaxY).
OreTop == Max(Max(ORES[1][3], ORES[2][3]), Max(ORES[3][3], ORES[4][3]))

VoxelTable ==
  [a \in Runs |->
    LET g == Ctx(ArgList[a])
    IN  [idx \in Cols |->
          [yi \in 0 .. (HEIGHT - 1) |->
            LET y == MIN_Y + yi
                wx == WorldX(g, idx)
                wz == WorldZ(g, idx)
                caves == Le(y, g.p.caveMaxY)
            IN  [ore |-> IF y <= OreTop THEN oreAt(g, wx, wz, y, 1) ELSE 0,
                 cn |-> IF caves THEN caveNoiseAt(g, wx, wz, y) ELSE 0,
                 spaghettiNoise |->
                   IF caves THEN spaghettiNoiseAt(g, wx, wz, y) ELSE 0]]]]

\* A column counted as under water whenever its terrain is below sea level.
isUnderwater_anyBiome(biome, height, seaLevel) == height < seaLevel

\* chunkGen.js:628
isUnderwater(biome, height, seaLevel) ==
  (biome = BIOME.OCEAN \/ biome = BIOME.BEACH) /\ height < seaLevel

\* Cave carving without the test of caveOpenToSurface and depth.
caveCarves_anyDepth(a, idx, y, height) ==
  LET g == Ctx(ArgList[a])
      v == VoxelTable[a][idx][y - MIN_Y]
      spaghetti == Abs(v.spaghettiNoise) < 50
      seaMinYDiff == g.p.seaLevel - MIN_Y + 1
      depthBias400 == ((g.p.seaLevel - y) * 400) \div seaMinYDiff
      caveValue == v.cn + depthBias400
  IN  /\ Le(y, g.p.caveMaxY)
      /\ (Gt(caveValue, g.p.caveThreshold)
          \/ (spaghetti /\ y < g.p.seaLevel - 5))
      /\ (y > g.p.seaLevel \/ height > g.p.seaLevel)

\* Cave carving without the flood guard of lines 697-699.
caveCarves_noFloodGuard(a, idx, y, height) ==
  LET g == Ctx(ArgList[a])
      v == VoxelTable[a][idx][y - MIN_Y]
      depthFromSurface == height - y
      spaghetti == Abs(v.spaghettiNoise) < 50
      seaMinYDiff == g.p.seaLevel - MIN_Y + 1
      depthBias400 == ((g.p.seaLevel - y) * 400) \div seaMinYDiff
      caveValue == v.cn + depthBias400
  IN  /\ Le(y, g.p.caveMaxY)
      /\ (g.p.caveOpenToSurface # 0 \/ depthFromSurface >= 3)
      /\ (Gt(caveValue, g.p.caveThreshold)
          \/ (spaghetti /\ y < g.p.seaLevel - 5))

\* chunkGen.js:679-701: does cave carving turn the voxel to air?
caveCarves(a, idx, y, height) ==
  LET g == Ctx(ArgList[a])
      v == VoxelTable[a][idx][y - MIN_Y]
      depthFromSurface == height - y
      spaghetti == Abs(v.spaghettiNoise) < 50
      seaMinYDiff == g.p.seaLevel - MIN_Y + 1
      depthBias400 == ((g.p.seaLevel - y) * 400) \div seaMinYDiff
      caveValue == v.cn + depthBias400
  IN  /\ Le(y, g.p.caveMaxY)
      /\ (g.p.caveOpenToSurface # 0 \/ depthFromSurface >= 3)
      /\ (Gt(caveValue, g.p.caveThreshold)
          \/ (spaghetti /\ y < g.p.seaLevel - 5))
      /\ (y > g.p.seaLevel \/ height > g.p.seaLevel)

\* chunkGen.js:638-647: is the voxel bedrock?
isBedrock(g, wx, wz, y) ==
  /\ y <= MIN_Y + 4
  /\ seededRandom(wx, wz + y * 1000, g.seed) < ((MIN_Y + 5 - y) * ONE) \div 5

\* chunkGen.js:649-676: the solid block of a terrain voxel (y <= height)
\* before bedrock and carving: surface, subsurface, or stone replaced by
\* the ore the ore loop found there (ore, 0 for none).
solidBlock(biome, height, seaLevel, y, ore) ==
  LET underwater == isUnderwater(biome, height, seaLevel)
      depthFromSurface == height - y
  IN  IF y = height /\ ~underwater THEN getSurfaceBlock(biome, FALSE)
      ELSE IF depthFromSurface <= 4
        THEN (IF underwater THEN getSurfaceBlock(biome, TRUE)
              ELSE getSubsurfaceBlock(biome, depthFromSurface))
      ELSE (IF ore # 0 THEN ore ELSE 1)

\* chunkGen.js:635-711: the id iteration y of the fill loop writes into
\* data[colBase + (y - MIN_Y)], for MIN_Y <= y <= maxFillY.
placedBlock(a, c, idx, y) ==
  LET g == Ctx(ArgList[a])
      height == c.heightMapCache[idx]
      biome == c.biomeMapCache[idx]
      solid ==
        solidBlock(biome, height, g.p.seaLevel, y,
                   IF y <= OreTop THEN VoxelTable[a][idx][y - MIN_Y].ore
                   ELSE 0)
  IN  IF y <= height
      THEN (IF isBedrock(g, WorldX(g, idx), WorldZ(g, idx), y) THEN 14
            ELSE IF caveCarves(a, idx, y, height) THEN 0
            ELSE solid)
      ELSE IF y <= g.p.seaLevel
        THEN (IF biome = BIOME.SNOWY /\ y = g.p.seaLevel THEN 18 ELSE 4)
      ELSE 0

\* A fill loop that stops at sea level whatever the terrain height.
maxFillY_seaLevel(a, c, idx) == Ctx(ArgList[a]).p.seaLevel

\* chunkGen.js:631
maxFillY(a, c, idx) == Max(c.heightMapCache[idx], Ctx(ArgList[a]).p.seaLevel)

\* chunkGen.js:715-720: the index of the snow-layer write of a column, or
\* -1 when the column gets none.
snowIdx(a, c, idx) ==
  LET g == Ctx(ArgList[a])
      i == idx * HEIGHT + (c.heightMapCache[idx] + 1 - MIN_Y)
  IN  IF c.biomeMapCache[idx] = BIOME.SNOWY
         /\ c.heightMapCache[idx] > g.p.seaLevel /\ i < Size
      THEN i ELSE -1

\* chunkGen.js:620-721: data after the loop body has run for column idx.
\* A write at an index outside 0 .. Size-1 changes nothing (data is a
\* Uint8Array).
fillColumn(a, c, data, idx) ==
  LET colBase == idx * HEIGHT
      top == maxFillY(a, c, idx)
      snow == snowIdx(a, c, idx)
  IN  [i \in 0 .. (Size - 1) |->
        IF i = snow THEN 17
        ELSE IF i >= colBase /\ MIN_Y + (i - colBase) <= top
          THEN placedBlock(a, c, idx, MIN_Y + (i - colBase))
        ELSE data[i]]

\* chunkGen.js:616-722: columns idx, idx+1, ... in loop order.
RECURSIVE fillFrom(_, _, _, _)
fillFrom(a, c, data, idx) ==
  IF idx >= NCols THEN data
  ELSE fillFrom(a, c, fillColumn(a, c, data, idx), idx + 1)

\* chunkGen.js:272: new Uint8Array(size)
ZeroData == [i \in 0 .. (Size - 1) |-> 0]

Phase3Data(a, c, data) == fillFrom(a, c, data, 0)

\* ------------------------------------------------------------------------
\* PHASE 4 (chunkGen.js:724-917): trees
\* ------------------------------------------------------------------------
\* chunkGen.js:738-768: getHeightAt for a column outside the chunk.  The
\* continent noise scale is written out there as 0.0008.
heightOutside(g, wx, wz) ==
  LET baseNoise == baseNoiseAt(g, wx, wz)
      detailNoise == detailNoiseAt(g, wx, wz)
      continentalness == continentalnessAt(g.seed, wx, wz, 8)
      continentHeight ==
        continentHeightOf(continentalness, g.p.seaLevel, g.p.baseHeight)
  IN  Floor(clamp(continentHeight
                  + ((baseNoise + detailNoise) * g.p.amplitude * 4) \div 10,
                  MIN_Y * ONE, MAX_Y * ONE))

\* chunkGen.js:778-797: getBiomeAt for a column outside the chunk (scales
\* written out as 0.0015, 0.0025, 0.0008, 0.004).
biomeOutside(g, wx, wz) ==
  getBiome(temperatureAt(g.seed, wx, wz, 15), humidityAt(g.seed, wx, wz, 25),
           continentalnessAt(g.seed, wx, wz, 8), erosionAt(g.seed, wx, wz, 40),
           heightOutside(g, wx, wz), g.p.seaLevel)

\* chunkGen.js:834
TREE_SCAN_MARGIN == 4

\* chunkGen.js:837-838: the scan window, ScanWidth columns a side; cell k is
\* the k-th column the double loop visits.
ScanWidth == CHUNK_SIZE + 2 * TREE_SCAN_MARGIN
ScanCells == 0 .. (ScanWidth * ScanWidth - 1)
ScanX(g, k) == g.chunkWorldX - TREE_SCAN_MARGIN + (k \div ScanWidth)
ScanZ(g, k) == g.chunkWorldZ - TREE_SCAN_MARGIN + (k % ScanWidth)

\* What shouldTreeSpawnAt computes from noise alone at every cell of the
\* scan window of every call, evaluated once.
ScanTable ==
  [a \in Runs |->
    LET g == Ctx(ArgList[a])
    IN  [k \in ScanCells |->
          LET wx == ScanX(g, k)
              wz == ScanZ(g, k)
          IN  [height |-> heightOutside(g, wx, wz),
               biome |-> biomeOutside(g, wx, wz),
               localTreeDensity |-> treeDensityAt(g.seed, wx, wz),
               treeRand |-> seededRandom(wx, wz, g.seed + 3000),
               heightRand |-> seededRandom(wx, wz, g.seed + 3001)]]]

\* chunkGen.js:731-769
getHeightAt(a, c, k) ==
  LET g == Ctx(ArgList[a])
  IN  IF InChunk(g, ScanX(g, k), ScanZ(g, k))
      THEN c.heightMapCache[LocalIdx(g, ScanX(g, k), ScanZ(g, k))]
      ELSE ScanTable[a][k].height

\* chunkGen.js:772-798
getBiomeAt(a, c, k) ==
  LET g == Ctx(ArgList[a])
  IN  IF InChunk(g, ScanX(g, k), ScanZ(g, k))
      THEN c.biomeMapCache[LocalIdx(g, ScanX(g, k), ScanZ(g, k))]
      ELSE ScanTable[a][k].biome

\* chunkGen.js:826: minH + Math.floor(rand * (maxH - minH + 1)); NaN when a
\* bound is NaN.
treeHeightOf(minH, maxH, rand) ==
  IF IsNaN(minH) \/ IsNaN(maxH) THEN NaN
  ELSE minH + (rand * (maxH - minH + 1)) \div ONE

\* chunkGen.js:801-830 at cell k of the scan window, for the biome and
\* height the two helpers returned: ok is FALSE where the code returns null.
treeAt(g, wx, wz, biome, height, cell) ==
  LET localTreeDensity == cell.localTreeDensity
      biomeTreeDensity == getBiomeTreeDensity(biome)
      \* millionths
      effectiveTreeProb ==
        IF IsNaN(g.p.treeProbability) THEN NaN
        ELSE MulK(MulK(biomeTreeDensity, 300 + (localTreeDensity * 14) \div 10),
                  g.p.treeProbability)
      treeRand == cell.treeRand
      minH == IF biome = BIOME.FOREST THEN 6
              ELSE IF biome = BIOME.SWAMP THEN 5
              ELSE IF biome = BIOME.SAVANNA THEN 4 ELSE g.p.treeMinHeight
      maxH == IF biome = BIOME.FOREST THEN 10
              ELSE IF biome = BIOME.SWAMP THEN 8
              ELSE IF biome = BIOME.SAVANNA THEN 6 ELSE g.p.treeMaxHeight
  IN  [ok |-> /\ ~(height <= g.p.seaLevel)
              /\ biome \notin {BIOME.DESERT, BIOME.BEACH, BIOME.OCEAN}
              /\ ~Ge(treeRand * ONE, effectiveTreeProb),
       wx |-> wx, wz |-> wz, height |-> height,
       treeHeight |-> treeHeightOf(minH, maxH, cell.heightRand),
       leafRadius |-> IF biome = BIOME.SAVANNA THEN 3 ELSE 2,
       biome |-> biome]

shouldTreeSpawnAt(a, c, k) ==
  treeAt(Ctx(ArgList[a]), ScanX(Ctx(ArgList[a]), k), ScanZ(Ctx(ArgList[a]), k),
         getBiomeAt(a, c, k), getHeightAt(a, c, k), ScanTable[a][k])

\* chunkGen.js:829: the tree record pushed on treesToPlace.
treeInfoOf(t) ==
  [wx |-> t.wx, wz |-> t.wz, height |-> t.height, treeHeight |-> t.treeHeight,
   leafRadius |-> t.leafRadius, biome |-> t.biome]

\* The spacing test with the forest spacing for every biome.
tooClose_forestSpacing(treesToPlace, t) ==
  \E n \in 1 .. Len(treesToPlace) :
    LET dx == t.wx - treesToPlace[n].wx
        dz == t.wz - treesToPlace[n].wz
    IN  dx * dx + dz * dz < 3 * 3

\* chunkGen.js:842-852
tooClose(treesToPlace, t) ==
  LET minSpacing == IF t.biome = BIOME.FOREST THEN 3 ELSE 5
  IN  \E n \in 1 .. Len(treesToPlace) :
        LET dx == t.wx - treesToPlace[n].wx
            dz == t.wz - treesToPlace[n].wz
        IN  dx * dx + dz * dz < minSpacing * minSpacing

\* chunkGen.js:840-856: treesToPlace after the loop body has seen treeInfo.
pushTree(treesToPlace, treeInfo) ==
  IF treeInfo.ok /\ ~tooClose(treesToPlace, treeInfo)
  THEN Append(treesToPlace, treeInfoOf(treeInfo))
  ELSE treesToPlace

\* chunkGen.js:839-857: the body of the scan loops at cell k.
scanCell(a, c, treesToPlace, k) ==
  pushTree(treesToPlace, shouldTreeSpawnAt(a, c, k))

\* chunkGen.js:838-858: the inner loop over wz for row i of the window.
RECURSIVE scanRow(_, _, _, _, _)
scanRow(a, c, treesToPlace, i, j) ==
  IF j >= ScanWidth \/ Len(treesToPlace) < 0 THEN treesToPlace
  ELSE scanRow(a, c, scanCell(a, c, treesToPlace, i * ScanWidth + j),
               i, j + 1)

\* chunkGen.js:837-859: the outer loop over wx.
RECURSIVE scanLoop(_, _, _, _)
scanLoop(a, c, treesToPlace, i) ==
  IF i >= ScanWidth \/ Len(treesToPlace) < 0 THEN treesToPlace
  ELSE scanLoop(a, c, scanRow(a, c, treesToPlace, i, 0), i + 1)

\* chunkGen.js:835-859
ScanTrees(a, c) == scanLoop(a, c, <<>>, 0)

\* ------------------------------------------------------------------------
\* Writes into data.  A write is the pair of the y the code computed and the
\* flat index it stores at.  data is a Uint8Array: a store at an index
\* outside 0 .. Size-1 changes nothing, a load there yields undefined.
\* ------------------------------------------------------------------------
DataIdx == 0 .. (Size - 1)
Undefined == 0 - 1

Load(data, i) == IF i \in DataIdx THEN data[i] ELSE Undefined

Store(data, i, id) == IF i \in DataIdx THEN [data EXCEPT ![i] = id] ELSE data

\* The same id stored at every index of I.
StoreAll(data, I, id) ==
  IF I \cap DataIdx = {} THEN data
  ELSE [i \in DataIdx |-> IF i \in I THEN id ELSE data[i]]

\* chunkGen.js:869-875: the trunk stores of a tree, those the guard
\* trunkIdx < size lets through.
trunkWrites(g, t) ==
  LET colBase == LocalIdx(g, t.wx, t.wz) * HEIGHT
  IN  IF InChunk(g, t.wx, t.wz) /\ ~IsNaN(t.treeHeight)
      THEN {w \in {[y |-> t.height + ty,
                    i |-> colBase + (t.height + ty - MIN_Y)] :
                   ty \in 1 .. t.treeHeight} : w.i < Size}
      ELSE {}

\* chunkGen.js:878-903: the leaf positions of a tree that fall in this
\* chunk's columns, before the guards of line 905.
leafCandidates(g, t) ==
  LET savanna == t.biome = BIOME.SAVANNA
      leafStart == IF savanna THEN t.treeHeight - 1 ELSE t.treeHeight - 2
      leafEnd == IF savanna THEN t.treeHeight + 2 ELSE t.treeHeight + 3
      radiusAtHeight(ly) ==
        IF savanna THEN t.leafRadius
        ELSE IF ly > t.treeHeight THEN 1 ELSE t.leafRadius
      maxDist(ly) == radiusAtHeight(ly) + (IF savanna THEN 0 ELSE 1)
      R == (0 - t.leafRadius) .. t.leafRadius
      offsets ==
        {o \in (leafStart .. leafEnd) \X R \X R :
           /\ Abs(o[2]) <= radiusAtHeight(o[1])
           /\ Abs(o[3]) <= radiusAtHeight(o[1])
           /\ ~(o[2] = 0 /\ o[3] = 0 /\ o[1] <= t.treeHeight)
           /\ InChunk(g, t.wx + o[2], t.wz + o[3])
           /\ Abs(o[2]) + Abs(o[3]) <= maxDist(o[1])}
  IN  IF IsNaN(t.treeHeight) THEN {}
      ELSE {[y |-> t.height + o[1],
             i |-> LocalIdx(g, t.wx + o[2], t.wz + o[3]) * HEIGHT
                   + (t.height + o[1] - MIN_Y),
             wx |-> t.wx + o[2], wz |-> t.wz + o[3]] : o \in offsets}

\* The leaf stores without the air test of line 905.
leafWrites_overwrites(g, t, data) ==
  {w \in leafCandidates(g, t) :
     /\ w.i >= 0 /\ w.i < Size
     /\ hash3(w.wx, w.y, w.wz) > 120}

\* chunkGen.js:905-910: the leaf stores the guards let through.
leafWrites(g, t, data) ==
  {w \in leafCandidates(g, t) :
     /\ w.i >= 0 /\ w.i < Size /\ data[w.i] = 0
     /\ hash3(w.wx, w.y, w.wz) > 120}

\* chunkGen.js:878-916: the leaves of one tree.
placeLeaves(g, t, data) ==
  StoreAll(data, {w.i : w \in leafWrites(g, t, data)}, 7)

\* chunkGen.js:862-916: the body of the placement loop for one tree.
placeTree(g, t, data) ==
  placeLeaves(g, t, StoreAll(data, {w.i : w \in trunkWrites(g, t)}, 6))

\* chunkGen.js:862-917: trees n, n+1, ... of treesToPlace in order.
RECURSIVE placeFrom(_, _, _, _)
placeFrom(g, treesToPlace, data, n) ==
  IF n > Len(treesToPlace) \/ data[0] < 0 THEN data
  ELSE placeFrom(g, treesToPlace, placeTree(g, treesToPlace[n], data), n + 1)

PlaceTrees(a, treesToPlace, data) ==
  placeFrom(Ctx(ArgList[a]), treesToPlace, data, 1)

\* ------------------------------------------------------------------------
\* Cactus and dead bush pass (chunkGen.js:919-951)
\* ------------------------------------------------------------------------
\* chunkGen.js:937-949: the stores of column idx once it has passed the
\* tests of lines 929-935, as <<id, writes>>.
cactusWrites(a, c, idx) ==
  LET g == Ctx(ArgList[a])
      height == c.heightMapCache[idx]
      colBase == idx * HEIGHT
      cactusRand == seededRandom(WorldX(g, idx), WorldZ(g, idx), g.seed + 5000)
      localDensity == c.vegetationDensityCache[idx]
      cactusHeight ==
        1 + (seededRandom(WorldX(g, idx), WorldZ(g, idx), g.seed + 5001) * 3)
            \div ONE
      under(W) == {w \in W : w.i < Size}
  IN  IF cactusRand * ONE < 12 * localDensity
      THEN <<19, under({[y |-> height + cy, i |-> colBase + (height + cy - MIN_Y)] :
                         cy \in 1 .. cactusHeight})>>
      ELSE IF cactusRand * ONE < 35 * localDensity
      THEN <<20, under({[y |-> height + 1,
                         i |-> colBase + (height + 1 - MIN_Y)]})>>
      ELSE <<0, {}>>

\* chunkGen.js:925-935: does the pass decorate column idx at all?
cactusColumnOk(a, c, data, idx) ==
  LET g == Ctx(ArgList[a])
      height == c.heightMapCache[idx]
  IN  /\ ~(height <= g.p.seaLevel)
      /\ c.biomeMapCache[idx] = BIOME.DESERT
      /\ Load(data, idx * HEIGHT + (height - MIN_Y)) = 5

cactusColumn(a, c, data, idx) ==
  IF cactusColumnOk(a, c, data, idx)
  THEN StoreAll(data, {w.i : w \in cactusWrites(a, c, idx)[2]},
                cactusWrites(a, c, idx)[1])
  ELSE data

RECURSIVE cactusFrom(_, _, _, _)
cactusFrom(a, c, data, idx) ==
  IF idx >= NCols THEN data
  ELSE cactusFrom(a, c, cactusColumn(a, c, data, idx), idx + 1)

CactusPass(a, c, data) == cactusFrom(a, c, data, 0)

\* ------------------------------------------------------------------------
\* Vegetation pass (chunkGen.js:953-1044)
\* ------------------------------------------------------------------------
\* chunkGen.js:997-1041: the plant chosen for a biome, 0 for none.
vegetationType(biome, typeRand) ==
  IF biome = BIOME.SNOWY THEN (IF typeRand < 300 THEN 21 ELSE 0)
  ELSE IF biome = BIOME.SWAMP THEN (IF typeRand < 850 THEN 21 ELSE 22)
  ELSE IF biome = BIOME.FOREST
    THEN (IF typeRand < 650 THEN 21 ELSE IF typeRand < 850 THEN 22 ELSE 23)
  ELSE IF biome = BIOME.SAVANNA THEN (IF typeRand < 920 THEN 21 ELSE 20)
  ELSE IF biome = BIOME.PLAINS
    THEN (IF typeRand < 600 THEN 21 ELSE IF typeRand < 800 THEN 22 ELSE 23)
  ELSE (IF typeRand < 750 THEN 21 ELSE 22)

\* The plant of column idx without the occupancy test of line 975.
vegetationAt_ignoresOccupied(a, c, data, idx) ==
  LET g == Ctx(ArgList[a])
      height == c.heightMapCache[idx]
      biome == c.biomeMapCache[idx]
      colBase == idx * HEIGHT
      surfaceBlock == Load(data, colBase + (height - MIN_Y))
      aboveIdx == colBase + (height + 1 - MIN_Y)
      localVegDensity == c.vegetationDensityCache[idx]
      effectiveDensity == ((localVegDensity - 250) * ONE) \div 750
      vegProb == MulK(getBiomeVegetationDensity(biome), effectiveDensity)
      vegRand == seededRandom(WorldX(g, idx), WorldZ(g, idx), g.seed + 4000)
      typeRand == seededRandom(WorldX(g, idx), WorldZ(g, idx), g.seed + 4001)
  IN  IF /\ ~(height <= g.p.seaLevel)
         /\ biome \notin {BIOME.DESERT, BIOME.BEACH, BIOME.OCEAN}
         /\ surfaceBlock \in {3, 8}
         /\ ~(aboveIdx >= Size)
         /\ ~(localVegDensity < 250)
         /\ vegRand < vegProb
      THEN vegetationType(biome, typeRand)
      ELSE 0

\* chunkGen.js:960-995: the plant the pass stores above column idx, 0 when
\* it stores nothing.
vegetationAt(a, c, data, idx) ==
  LET g == Ctx(ArgList[a])
      height == c.heightMapCache[idx]
      biome == c.biomeMapCache[idx]
      colBase == idx * HEIGHT
      surfaceBlock == Load(data, colBase + (height - MIN_Y))
      aboveIdx == colBase + (height + 1 - MIN_Y)
      localVegDensity == c.vegetationDensityCache[idx]
      effectiveDensity == ((localVegDensity - 250) * ONE) \div 750
      vegProb == MulK(getBiomeVegetationDensity(biome), effectiveDensity)
      vegRand == seededRandom(WorldX(g, idx), WorldZ(g, idx), g.seed + 4000)
      typeRand == seededRandom(WorldX(g, idx), WorldZ(g, idx), g.seed + 4001)
  IN  IF /\ ~(height <= g.p.seaLevel)
         /\ biome \notin {BIOME.DESERT, BIOME.BEACH, BIOME.OCEAN}
         /\ surfaceBlock \in {3, 8}
         /\ ~(aboveIdx >= Size \/ Load(data, aboveIdx) # 0)
         /\ ~(localVegDensity < 250)
         /\ vegRand < vegProb
      THEN vegetationType(biome, typeRand)
      ELSE 0

vegetationColumn(a, c, data, idx) ==
  IF vegetationAt(a, c, data, idx) # 0
  THEN Store(data, idx * HEIGHT + (c.heightMapCache[idx] + 1 - MIN_Y),
             vegetationAt(a, c, data, idx))
  ELSE data

RECURSIVE vegetationFrom(_, _, _, _)
vegetationFrom(a, c, data, idx) ==
  IF idx >= NCols THEN data
  ELSE vegetationFrom(a, c, vegetationColumn(a, c, data, idx), idx + 1)

VegetationPass(a, c, data) == vegetationFrom(a, c, data, 0)

\* ------------------------------------------------------------------------
\* getBiomeAtWorld (chunkGen.js:1056-1118)
\* ------------------------------------------------------------------------
\* chunkGen.js:1115-1116: idToName, indexed by biome id + 1.
idToName ==
  << "Plains", "Forest", "Desert", "Mountains", "Snowy", "Beach", "Ocean",
     "Swamp", "Savanna" >>

\* chunkGen.js:1056-1117 for the seed and opts of call a.
getBiomeAtWorld(wx, wz, a) ==
  LET g == Ctx(ArgList[a])
      temperature == temperatureAt(g.seed, wx, wz, 15)
      humidity == humidityAt(g.seed, wx, wz, 25)
      continentalness == continentalnessAt(g.seed, wx, wz, 8)
      erosion == erosionAt(g.seed, wx, wz, 40)
      continentHeight ==
        continentHeightOf(continentalness, g.p.seaLevel, g.p.baseHeight)
      height ==
        Floor(clamp(continentHeight
                    + ((baseNoiseAt(g, wx, wz) + detailNoiseAt(g, wx, wz))
                       * g.p.amplitude * 4) \div 10,
                    MIN_Y * ONE, MAX_Y * ONE))
      biomeId == getBiome(temperature, humidity, continentalness, erosion,
                          height, g.p.seaLevel)
  IN  idToName[biomeId + 1]

\* ------------------------------------------------------------------------
\* The generation workers.  A worker (src/unnamed/part_000) imports
\* chunkGen.js, so it has its own instance of the module and of the module's
\* scratch caches, and handles one message at a time: each message is one
\* generateChunk call, run here phase by phase.
\* ------------------------------------------------------------------------
Workers == 1 .. 2

\* Every worker running on one module instance, and so on one set of
\* scratch caches.
ModuleOf_shared(w) == 1

\* part_000:1: the module instance a worker's calls run on.
ModuleOf(w) == w

Modules == {ModuleOf(w) : w \in Workers}

\* Messages the single worker of Spec handles, and messages each worker of
\* ParSpec handles.
MaxCalls == 2
ParCalls == 1

\* The calls the workers of ParSpec are sent: distinct chunks.
ParArgs(w) == IF w = 1 THEN {2, 4} ELSE {3}

VARIABLES
  pc,       \* pc[w]: where worker w is in its generateChunk call
  call,     \* call[w]: the index in ArgList of the call worker w runs
  calls,    \* calls[w]: messages worker w has taken
  cache,    \* cache[m]: the scratch caches of module instance m
  loc,      \* loc[w]: the locals of the running call: erosionCache, the
            \* heap address of data, treesToPlace
  heap,     \* the Uint8Arrays allocated by line 272, by address
  results,  \* what the calls returned, in order of return
  alone,    \* alone[w]: the same call run on a freshly loaded module, and
            \* (field stale) on a module whose cache entries all hold the
            \* mark Stale until the call writes them
  probe     \* one call of a pure function: its name, arguments and result

vars == <<pc, call, calls, cache, loc, heap, results, alone, probe>>

NoLocals == [erosionCache |-> ZeroCols, data |-> 0, treesToPlace |-> <<>>]

\* The mark of a cache entry not written since the call began: no height,
\* biome id or climate value equals it.
Stale == 0 - 777

\* The seven scratch caches with every entry left over from earlier calls.
StaleCaches ==
  [f \in DOMAIN FreshCaches |-> [idx \in Cols |-> Stale]]

FreshRun ==
  [cache |-> FreshCaches, erosionCache |-> ZeroCols, data |-> ZeroData,
   treesToPlace |-> <<>>, stale |-> StaleCaches]

\* The module as loaded: no call under way, caches zeroed.
Loaded ==
  /\ pc = [w \in Workers |-> "idle"]
  /\ call = [w \in Workers |-> 0]
  /\ calls = [w \in Workers |-> 0]
  /\ cache = [m \in Modules |-> FreshCaches]
  /\ loc = [w \in Workers |-> NoLocals]
  /\ heap = <<>>
  /\ results = <<>>
  /\ alone = [w \in Workers |-> FreshRun]

\* No pure-function call is under observation while chunks are generated.
NoProbe == [fn |-> "none", arg |-> [none |-> 0], done |-> FALSE, out |-> 0]

Init == Loaded /\ probe = NoProbe

\* A result that holds heightMapCache itself instead of a copy.
newHeightMap_alias(m) == [own |-> FALSE, m |-> m, val |-> ZeroCols]

\* chunkGen.js:1050: new Int16Array(heightMapCache), a copy owned by the
\* result.
newHeightMap(m) == [own |-> TRUE, m |-> m, val |-> cache[m].heightMapCache]

\* chunkGen.js:1051: new Uint8Array(biomeMapCache)
newBiomeMap(m) == [own |-> TRUE, m |-> m, val |-> cache[m].biomeMapCache]

\* The elements of the arrays a result holds, as they are now.
DataOf(r) == heap[r.data]
HeightMapOf(r) ==
  IF r.heightMap.own THEN r.heightMap.val
  ELSE cache[r.heightMap.m].heightMapCache
BiomeMapOf(r) ==
  IF r.biomeMap.own THEN r.biomeMap.val
  ELSE cache[r.biomeMap.m].biomeMapCache

\* part_000:4-7 and chunkGen.js:256-305: a message arrives and the call
\* starts: parameters resolved, data and erosionCache allocated.  The
\* worker takes at most quota messages.
Begin(w, a, quota) ==
  /\ pc[w] = "idle"
  /\ calls[w] < quota
  /\ ~throwsTypeError(ArgList[a])
  /\ pc' = [pc EXCEPT ![w] = "phase1"]
  /\ call' = [call EXCEPT ![w] = a]
  /\ calls' = [calls EXCEPT ![w] = @ + 1]
  /\ heap' = Append(heap, ZeroData)
  /\ loc' = [loc EXCEPT ![w] = [NoLocals EXCEPT !.data = Len(heap) + 1]]
  /\ alone' = [alone EXCEPT ![w] = FreshRun]
  /\ UNCHANGED <<probe, cache, results>>

\* part_000:24-26 and chunkGen.js:263: the call throws on its first
\* property read and the worker posts the error.
Throw(w, a, quota) ==
  /\ pc[w] = "idle"
  /\ calls[w] < quota
  /\ throwsTypeError(ArgList[a])
  /\ calls' = [calls EXCEPT ![w] = @ + 1]
  /\ results' = Append(results, [kind |-> "error", worker |-> w, arg |-> a])
  /\ UNCHANGED <<probe, pc, call, cache, loc, heap, alone>>

\* chunkGen.js:307-363
Phase1(w) ==
  LET m == ModuleOf(w)
      a == call[w]
  IN  /\ pc[w] = "phase1"
      /\ pc' = [pc EXCEPT ![w] = "phase2"]
      /\ cache' = [cache EXCEPT ![m] = Phase1Caches(a, cache[m])]
      /\ loc' = [loc EXCEPT ![w].erosionCache = Phase1Erosion(a)]
      /\ alone' = [alone EXCEPT
                     ![w].cache = Phase1Caches(a, alone[w].cache),
                     ![w].stale = Phase1Caches(a, alone[w].stale),
                     ![w].erosionCache = Phase1Erosion(a)]
      /\ UNCHANGED <<probe, call, calls, heap, results>>

\* chunkGen.js:522-611
Phase2(w) ==
  LET m == ModuleOf(w)
      a == call[w]
  IN  /\ pc[w] = "phase2"
      /\ pc' = [pc EXCEPT ![w] = "phase3"]
      /\ cache' = [cache EXCEPT
                     ![m] = Phase2Caches(a, cache[m], loc[w].erosionCache)]
      /\ alone' = [alone EXCEPT
                     ![w].cache = Phase2Caches(a, alone[w].cache,
                                               alone[w].erosionCache),
                     ![w].stale = Phase2Caches(a, alone[w].stale,
                                               alone[w].erosionCache)]
      /\ UNCHANGED <<probe, call, calls, loc, heap, results>>

\* chunkGen.js:616-722
Phase3(w) ==
  LET m == ModuleOf(w)
      a == call[w]
      d == loc[w].data
  IN  /\ pc[w] = "phase3"
      /\ pc' = [pc EXCEPT ![w] = "scan"]
      /\ heap' = [heap EXCEPT ![d] = Phase3Data(a, cache[m], heap[d])]
      /\ alone' = [alone EXCEPT
                     ![w].data = Phase3Data(a, alone[w].cache, alone[w].data)]
      /\ UNCHANGED <<probe, call, calls, cache, loc, results>>

\* chunkGen.js:832-859
Phase4Scan(w) ==
  LET m == ModuleOf(w)
      a == call[w]
  IN  /\ pc[w] = "scan"
      /\ pc' = [pc EXCEPT ![w] = "place"]
      /\ loc' = [loc EXCEPT ![w].treesToPlace = ScanTrees(a, cache[m])]
      /\ alone' = [alone EXCEPT
                     ![w].treesToPlace = ScanTrees(a, alone[w].cache)]
      /\ UNCHANGED <<probe, call, calls, cache, heap, results>>

\* chunkGen.js:861-917
Phase4Place(w) ==
  LET a == call[w]
      d == loc[w].data
  IN  /\ pc[w] = "place"
      /\ pc' = [pc EXCEPT ![w] = "cactus"]
      /\ heap' = [heap EXCEPT
                    ![d] = PlaceTrees(a, loc[w].treesToPlace, heap[d])]
      /\ alone' = [alone EXCEPT
                     ![w].data = PlaceTrees(a, alone[w].treesToPlace,
                                            alone[w].data)]
      /\ UNCHANGED <<probe, call, calls, cache, loc, results>>

\* chunkGen.js:919-951
Cactus(w) ==
  LET m == ModuleOf(w)
      a == call[w]
      d == loc[w].data
  IN  /\ pc[w] = "cactus"
      /\ pc' = [pc EXCEPT ![w] = "vegetation"]
      /\ heap' = [heap EXCEPT ![d] = CactusPass(a, cache[m], heap[d])]
      /\ alone' = [alone EXCEPT
                     ![w].data = CactusPass(a, alone[w].cache, alone[w].data)]
      /\ UNCHANGED <<probe, call, calls, cache, loc, results>>

\* chunkGen.js:953-1044
Vegetation(w) ==
  LET m == ModuleOf(w)
      a == call[w]
      d == loc[w].data
  IN  /\ pc[w] = "vegetation"
      /\ pc' = [pc EXCEPT ![w] = "return"]
      /\ heap' = [heap EXCEPT ![d] = VegetationPass(a, cache[m], heap[d])]
      /\ alone' = [alone EXCEPT
                     ![w].data =
                        VegetationPass(a, alone[w].cache, alone[w].data)]
      /\ UNCHANGED <<probe, call, calls, cache, loc, results>>

\* chunkGen.js:1046-1052 and part_000:8-23: the chunk is returned and
\* posted.  treesToPlace is kept with the result for the record, and so is
\* the chunk the same call produced alone.
Return(w) ==
  LET m == ModuleOf(w)
      a == call[w]
  IN  /\ pc[w] = "return"
      /\ pc' = [pc EXCEPT ![w] = "idle"]
      /\ results' =
           Append(results,
                  [kind |-> "chunk", worker |-> w, arg |-> a,
                   chunkX |-> ArgList[a].chunkX, chunkZ |-> ArgList[a].chunkZ,
                   data |-> loc[w].data,
                   heightMap |-> newHeightMap(m),
                   biomeMap |-> newBiomeMap(m),
                   treesToPlace |-> loc[w].treesToPlace,
                   alone |-> [data |-> alone[w].data,
                              heightMap |-> alone[w].cache.heightMapCache,
                              biomeMap |-> alone[w].cache.biomeMapCache,
                              treesToPlace |-> alone[w].treesToPlace]])
      /\ UNCHANGED <<probe, call, calls, cache, loc, heap, alone>>

\* The steps of a call under way on worker w.
Step(w) ==
  \/ Phase1(w) \/ Phase2(w) \/ Phase3(w) \/ Phase4Scan(w) \/ Phase4Place(w)
  \/ Cactus(w) \/ Vegetation(w) \/ Return(w)

\* One worker, its messages handled one at a time.
Next ==
  \/ \E a \in Args : Begin(1, a, MaxCalls)
  \/ \E a \in Args : Throw(1, a, MaxCalls)
  \/ Step(1)

Spec == Init /\ [][Next]_vars

\* Two workers generating distinct chunks at the same time.
ParNext ==
  \E w \in Workers :
    \/ \E a \in ParArgs(w) : Begin(w, a, ParCalls)
    \/ Step(w)

ParSpec == Init /\ [][ParNext]_vars

\* ------------------------------------------------------------------------
\* Pure functions, called on their own
\* ------------------------------------------------------------------------
\* getIndex with world y taken as the offset in the column.
getIndex_worldY(lx, ly, lz) == (lx * CHUNK_SIZE + lz) * HEIGHT + ly

\* lighting.js:73-75 getIndex; the same expression indexes the chunk array
\* in chunkGen.js:626-634 (colBase + (y - MIN_Y) with colBase = idx * HEIGHT
\* and idx = x * CHUNK_SIZE + z) and in chunkManager.js:157.
getIndex(lx, ly, lz) == (lx * CHUNK_SIZE + lz) * HEIGHT + (ly - MIN_Y)

\* The voxels of a chunk: local x and z, world y.
Voxels == [lx : 0 .. (CHUNK_SIZE - 1), ly : MIN_Y .. MAX_Y,
           lz : 0 .. (CHUNK_SIZE - 1)]

\* Octave counts a caller passes to octaveNoise, from none upwards.
MaxOctaves == 3

\* Arguments of octaveNoise: instance seed, coordinates (ten-thousandths),
\* octave count, persistence 0.5 and lacunarity 2 (thousandths).
OctaveInputs ==
  [pseed : {0, 1}, x : {0, 1250, 25000}, y : {0}, z : {0, 7300},
   octaves : 0 .. MaxOctaves, persistence : {500}, lacunarity : {2000}]

\* Arguments of getBiome on both sides of every threshold of the cascade.
BiomeInputs ==
  [temperature : {200, 300, 370, 420, 500, 700, 900},
   humidity : {200, 300, 400, 500, 600, 680, 750},
   continentalness : {200, 300, 500, 900},
   erosion : {300, 500},
   height : {TERRAIN.seaLevel - 4, TERRAIN.seaLevel - 3, TERRAIN.seaLevel,
             TERRAIN.seaLevel + 4, TERRAIN.seaLevel + 5,
             TERRAIN.seaLevel + 60, TERRAIN.seaLevel + 61},
   seaLevel : {TERRAIN.seaLevel}]

\* Arguments of the block choice: every biome, terrain below, at and above
\* sea level, the height voxel, a subsurface voxel and an interior voxel,
\* without and with an ore found there.
BlockInputs ==
  [biome : {BIOME[n] : n \in DOMAIN BIOME},
   height : (TERRAIN.seaLevel - 2) .. (TERRAIN.seaLevel + 1),
   seaLevel : {TERRAIN.seaLevel},
   depth : {0, 2, 5},
   ore : {0, ORES[1][1]}]

\* ------------------------------------------------------------------------
\* The permutation table (perlin.js:3-25).  A 32-bit word is a pair
\* <<high half, low half>> of 16-bit numbers, so that no intermediate value
\* leaves the integers the arithmetic is done in.
\* ------------------------------------------------------------------------
W16 == 2 ^ 16

RECURSIVE Xor16(_, _)
Xor16(a, b) ==
  IF a = 0 THEN b
  ELSE IF b = 0 THEN a
  ELSE ((a + b) % 2) + 2 * Xor16(a \div 2, b \div 2)

RECURSIVE Or16(_, _)
Or16(a, b) ==
  IF a = 0 THEN b
  ELSE IF b = 0 THEN a
  ELSE (IF a % 2 = 1 \/ b % 2 = 1 THEN 1 ELSE 0) + 2 * Or16(a \div 2, b \div 2)

\* x ^ y, x | k for k below 2^16, x + y modulo 2^32, x >>> k for k below 16.
XorW(x, y) == <<Xor16(x[1], y[1]), Xor16(x[2], y[2])>>
OrW(x, k) == <<x[1], Or16(x[2], k)>>
AddW(x, y) ==
  <<(x[1] + y[1] + (x[2] + y[2]) \div W16) % W16, (x[2] + y[2]) % W16>>
ShrW(x, k) ==
  <<x[1] \div (2 ^ k), (x[1] % (2 ^ k)) * (W16 \div (2 ^ k)) + x[2] \div (2 ^ k)>>

\* The 32-bit product of two 16-bit numbers, as a word.
Mul16(a, b) ==
  LET p1 == a * (b \div 256)
      lo == (p1 % 256) * 256 + a * (b % 256)
  IN  <<(p1 \div 256 + lo \div W16) % W16, lo % W16>>

\* Math.imul(x, y): the low 32 bits of the product.
imul(x, y) ==
  LET ll == Mul16(x[2], y[2])
      cross == (Mul16(x[1], y[2])[2] + Mul16(x[2], y[1])[2]) % W16
  IN  <<(ll[1] + cross) % W16, ll[2]>>

\* seed >>> 0 (perlin.js:4)
ToUint32(seed) == <<(seed \div W16) % W16, seed % W16>>

\* perlin.js:6-10: one call of the generator whose state is a, as the new
\* state and the 32-bit numerator of the value returned.
mulberry32(a) ==
  LET a1 == AddW(a, <<27947, 31221>>)
      t1 == imul(XorW(a1, ShrW(a1, 15)), OrW(a1, 1))
      t2 == XorW(AddW(t1, imul(XorW(t1, ShrW(t1, 7)), OrW(t1, 61))), t1)
  IN  [a |-> a1, out |-> XorW(t2, ShrW(t2, 14))]

\* perlin.js:20: Math.floor(rand() * (i + 1)) for rand() = out / 2^32.
randIndex(out, i) ==
  (out[1] * (i + 1) + (out[2] * (i + 1)) \div W16) \div W16

\* The exchange of lines 21-23 with the store into perm[j] left out.
swap_overwrite(perm, i, j) == [perm EXCEPT ![i] = perm[j]]

\* perlin.js:21-23
swap(perm, i, j) == [perm EXCEPT ![i] = perm[j], ![j] = perm[i]]

\* perlin.js:20-23: the body of the shuffle loop at index i, on the
\* generator state a and the array perm; js records the index j drawn.
shuffleStep(st, i) ==
  LET r == mulberry32(st.a)
      j == randIndex(r.out, i)
  IN  [a |-> r.a, perm |-> swap(st.perm, i, j), js |-> [st.js EXCEPT ![i] = j]]

\* perlin.js:19-24: the iterations of the loop for i = hi, hi - 1, ..., lo in
\* this order.  The range is halved, and the state after the upper half is
\* computed before the lower half is entered, to keep the evaluation
\* shallow.
RECURSIVE shuffle(_, _, _)
shuffle(st, hi, lo) ==
  IF hi < lo THEN st
  ELSE IF hi = lo THEN shuffleStep(st, hi)
  ELSE CHOOSE out \in {shuffle(upper, (hi + lo) \div 2, lo) :
                         upper \in {shuffle(st, hi, (hi + lo) \div 2 + 1)}} :
         TRUE

\* perlin.js:14-25: the table p of createPerlin(seed), with the indices
\* drawn by its shuffle.
createPerlin(seed) ==
  LET s == shuffle([a |-> ToUint32(seed), perm |-> [i \in 0 .. 255 |-> i],
                    js |-> [i \in 1 .. 255 |-> 0]], 255, 1)
  IN  [p |-> [i \in 0 .. 511 |-> s.perm[i % 256]], js |-> s.js]

\* Seeds around zero, a seed with its companions (chunkGen.js:257-260), and
\* the ends of the 32-bit range.
SeedInputs ==
  [seed : {0 - 2147483647, 0 - 1, 0, 1, 2, 3, 1000, 2000, 3000, 12345,
           2147483647}]

\* Continentalness over its clamped range (chunkGen.js:752), and blended
\* parameters between the least and greatest biome values (124-160).
FractionInputs ==
  [continentalness : {50 * n : n \in 0 .. 30},
   terrainScale : {80, 150, 200, 250, 1200, 1500, 1800},
   heightOffset : {(0 - 15) * ONE, (0 - 3) * ONE, (0 - 2) * ONE,
                   (0 - 1) * ONE, 0, 40 * ONE}]

ProbeInputs ==
  {[fn |-> "getIndex", arg |-> v, done |-> FALSE, out |-> 0] : v \in Voxels}
  \cup {[fn |-> "octaveNoise", arg |-> v, done |-> FALSE, out |-> 0] :
          v \in OctaveInputs}
  \cup {[fn |-> "getBiome", arg |-> v, done |-> FALSE, out |-> 0] :
          v \in BiomeInputs}
  \cup {[fn |-> "solidBlock", arg |-> v, done |-> FALSE, out |-> 0] :
          v \in BlockInputs}
  \cup {[fn |-> "fractions", arg |-> v, done |-> FALSE, out |-> 0] :
          v \in FractionInputs}
  \cup {[fn |-> "createPerlin", arg |-> v, done |-> FALSE, out |-> <<>>] :
          v \in SeedInputs}

PureInit == Loaded /\ probe \in ProbeInputs

CallGetIndex ==
  /\ probe.fn = "getIndex" /\ ~probe.done
  /\ probe' = [probe EXCEPT !.done = TRUE,
                 !.out = getIndex(probe.arg.lx, probe.arg.ly, probe.arg.lz)]
  /\ UNCHANGED <<pc, call, calls, cache, loc, heap, results, alone>>

CallOctaveNoise ==
  /\ probe.fn = "octaveNoise" /\ ~probe.done
  /\ probe' = [probe EXCEPT !.done = TRUE,
                 !.out = octaveNoise(probe.arg.pseed, probe.arg.x, probe.arg.y,
                                     probe.arg.z, probe.arg.octaves,
                                     probe.arg.persistence,
                                     probe.arg.lacunarity)]
  /\ UNCHANGED <<pc, call, calls, cache, loc, heap, results, alone>>

CallGetBiome ==
  /\ probe.fn = "getBiome" /\ ~probe.done
  /\ probe' = [probe EXCEPT !.done = TRUE,
                 !.out = getBiome(probe.arg.temperature, probe.arg.humidity,
                                  probe.arg.continentalness, probe.arg.erosion,
                                  probe.arg.height, probe.arg.seaLevel)]
  /\ UNCHANGED <<pc, call, calls, cache, loc, heap, results, alone>>

CallSolidBlock ==
  /\ probe.fn = "solidBlock" /\ ~probe.done
  /\ probe' = [probe EXCEPT !.done = TRUE,
                 !.out = solidBlock(probe.arg.biome, probe.arg.height,
                                    probe.arg.seaLevel,
                                    probe.arg.height - probe.arg.depth,
                                    probe.arg.ore)]
  /\ UNCHANGED <<pc, call, calls, cache, loc, heap, results, alone>>

\* The fractions height synthesis computes from a column's continentalness
\* and blended parameters (chunkGen.js:548-556, 579-581).
CallFractions ==
  /\ probe.fn = "fractions" /\ ~probe.done
  /\ probe' = [probe EXCEPT !.done = TRUE,
                 !.out = [t |-> continentT(probe.arg.continentalness),
                          mountainInfluence |-> mountainInfluenceOf(probe.arg),
                          oceanInfluence |-> oceanInfluenceOf(probe.arg),
                          swampInfluence |-> swampInfluenceOf(probe.arg)]]
  /\ UNCHANGED <<pc, call, calls, cache, loc, heap, results, alone>>

\* createPerlin(seed), called again on the same seed until two tables are
\* built (chunkGen.js:257, 1057: every call builds its tables anew).
CallCreatePerlin ==
  /\ probe.fn = "createPerlin" /\ ~probe.done
  /\ probe' = [probe EXCEPT !.done = Len(probe.out) = 1,
                 !.out = Append(probe.out, createPerlin(probe.arg.seed))]
  /\ UNCHANGED <<pc, call, calls, cache, loc, heap, results, alone>>

PureNext ==
  \/ CallGetIndex \/ CallOctaveNoise \/ CallGetBiome \/ CallSolidBlock
  \/ CallFractions \/ CallCreatePerlin

PureSpec == PureInit /\ [][PureNext]_vars

\* ------------------------------------------------------------------------
\* Properties
\* ------------------------------------------------------------------------
\* The chunks returned so far, by position in results.
Chunks == {n \in DOMAIN results : results[n].kind = "chunk"}

\* The closure of the call that returned r.
CtxOf(r) == Ctx(ArgList[r.arg])

\* The arrays of r hold what the same call returns on a fresh module.
SameAsAlone(r) ==
  /\ DataOf(r) = r.alone.data
  /\ HeightMapOf(r) = r.alone.heightMap
  /\ BiomeMapOf(r) = r.alone.biomeMap

\* C1 (determinism over call sequences): on one module, with the scratch
\* caches carried from call to call, the data, heightMap and biomeMap a call
\* returns are those it returns on a freshly loaded module, whatever calls
\* came before it.
C1_Determinism == \A n \in Chunks : SameAsAlone(results[n])

\* C1's case: a chunk returned by a call that ran after a chunk of another
\* seed, position and opts had gone through the same caches.
C1_Witness ==
  \E n \in Chunks :
    /\ n > 1 /\ (n - 1) \in Chunks
    /\ ArgList[results[n - 1].arg].seed # ArgList[results[n].arg].seed
    /\ HeightMapOf(results[n - 1]) # HeightMapOf(results[n])

\* The trees of a result, as a set.
TreesOf(r) == {r.treesToPlace[k] : k \in DOMAIN r.treesToPlace}

\* Calls for neighbouring chunks of one world: same seed, same opts.
Adjacent(a, b) ==
  /\ ArgList[a].seed = ArgList[b].seed
  /\ ArgList[a].kind = ArgList[b].kind
  /\ ArgList[a].opts = ArgList[b].opts
  /\ Abs(ArgList[a].chunkX - ArgList[b].chunkX)
       + Abs(ArgList[a].chunkZ - ArgList[b].chunkZ) = 1

\* The canopy of tree t has leaf positions in the chunk of ga and in the
\* chunk of gb.
SpansBoth(t, ga, gb) == leafCandidates(ga, t) # {} /\ leafCandidates(gb, t) # {}

\* C2 (seam invariance): a tree whose canopy spans two adjacent chunks is in
\* the tree list of both generations as the same record: same root column,
\* base height, trunk height, leaf radius and biome.
C2_SeamInvariance ==
  \A i \in Chunks : \A j \in Chunks :
    Adjacent(results[i].arg, results[j].arg) =>
      \A t \in TreesOf(results[i]) :
        SpansBoth(t, CtxOf(results[i]), CtxOf(results[j])) =>
          t \in TreesOf(results[j])

\* C3 (classification stability): the biome id generateChunk stores for a
\* column names the biome getBiomeAtWorld returns for that world column
\* with the same seed and opts.
C3_ClassificationStability ==
  \A n \in Chunks : \A idx \in Cols :
    idToName[BiomeMapOf(results[n])[idx] + 1]
      = getBiomeAtWorld(WorldX(CtxOf(results[n]), idx),
                        WorldZ(CtxOf(results[n]), idx), results[n].arg)

\* The voxel index idx * HEIGHT + (y - MIN_Y) of a write computed for height
\* y in column idx lands on that voxel: y is a height of the chunk.
LandsInColumn(wr) == wr.y >= MIN_Y /\ wr.y <= MAX_Y

\* C4 (index safety): every store into data that gets past its guard was
\* computed for a height within MIN_Y .. MAX_Y, so that it lands in the
\* column it was computed for: the snow layer of a column, the trunk of a
\* tree, a cactus or dead bush.
C4_IndexSafety ==
  \A w \in Workers :
    /\ pc[w] = "scan" =>
         \A idx \in Cols :
           snowIdx(call[w], cache[ModuleOf(w)], idx) >= 0 =>
             snowIdx(call[w], cache[ModuleOf(w)], idx) \div HEIGHT = idx
    /\ pc[w] = "cactus" =>
         /\ \A t \in TreesOf(loc[w]) :
              \A wr \in trunkWrites(Ctx(ArgList[call[w]]), t) :
                LandsInColumn(wr)
         /\ \A idx \in Cols :
              cactusColumnOk(call[w], cache[ModuleOf(w)],
                             heap[loc[w].data], idx) =>
                \A wr \in cactusWrites(call[w], cache[ModuleOf(w)], idx)[2] :
                  LandsInColumn(wr)

\* The first non-air voxel of column idx of data scanning down from MAX_Y,
\* MIN_Y - 1 for a column of air.
TopOf(data, idx) ==
  LET S == {y \in MIN_Y .. MAX_Y : data[idx * HEIGHT + (y - MIN_Y)] # 0}
  IN  IF S = {} THEN MIN_Y - 1 ELSE CHOOSE y \in S : \A z \in S : z <= y

\* Block ids of stone and the ores (chunkGen.js:13-15).
StoneOrOre == {1, 10, 11, 12, 13}

\* C5 as stated (column consistency): the first non-air voxel from the top
\* is at heightMap[column], or the voxel there is air, everything above it
\* is air and the voxel right below it is stone or ore.
C5_FirstNonAirAtHeightMap ==
  \A n \in Chunks : \A idx \in Cols :
    LET h == HeightMapOf(results[n])[idx]
        data == DataOf(results[n])
    IN  \/ TopOf(data, idx) = h
        \/ /\ TopOf(data, idx) = h - 1
           /\ data[idx * HEIGHT + (h - 1 - MIN_Y)] \in StoneOrOre

\* What PHASE 3 and the decoration passes put above the terrain: air, water,
\* wood, leaves, snow layer, ice, cactus, dead bush and the plants.
AboveTerrain == {0, 4, 6, 7, 17, 18, 19, 20, 21, 22, 23}

\* C5 (column consistency): in every column of a returned chunk, the voxels
\* above heightMap[column] hold only air, water or ice (at or below sea
\* level) or a decoration, and the voxel at heightMap[column] is not air
\* unless it lies above sea level and within the cave range, where carving
\* can remove it.
C5_ColumnConsistency ==
  \A n \in Chunks : \A idx \in Cols :
    LET h == HeightMapOf(results[n])[idx]
        data == DataOf(results[n])
        p == CtxOf(results[n]).p
    IN  /\ \A y \in (h + 1) .. MAX_Y :
             /\ data[idx * HEIGHT + (y - MIN_Y)] \in AboveTerrain
             /\ data[idx * HEIGHT + (y - MIN_Y)] \in {4, 18} => y <= p.seaLevel
        /\ data[idx * HEIGHT + (h - MIN_Y)] = 0 =>
             h > p.seaLevel /\ Le(h, p.caveMaxY)

\* C5's cases: a returned chunk with a column whose top voxel is above
\* heightMap and a column whose voxel at heightMap was carved to air.
C5_Witness ==
  \E n \in Chunks :
    /\ \E idx \in Cols :
         TopOf(DataOf(results[n]), idx) > HeightMapOf(results[n])[idx]
    /\ \E idx \in Cols :
         DataOf(results[n])[idx * HEIGHT
                            + (HeightMapOf(results[n])[idx] - MIN_Y)] = 0

\* C6 (bounds): every data entry of a returned chunk is a block id 0 .. 23
\* and every heightMap entry lies in MIN_Y .. MAX_Y; so does every entry of
\* heightMapCache, which the returned heightMap is copied from.
C6_Bounds ==
  /\ \A n \in Chunks :
       /\ \A i \in DataIdx : DataOf(results[n])[i] \in 0 .. 23
       /\ \A idx \in Cols :
            HeightMapOf(results[n])[idx] \in MIN_Y .. MAX_Y
  /\ \A m \in Modules : \A idx \in Cols :
       cache[m].heightMapCache[idx] \in MIN_Y .. MAX_Y

\* C6's case: a chunk returned for opts whose baseHeight pushes the computed
\* height of a column past MAX_Y.
C6_Witness ==
  \E n \in Chunks : \E idx \in Cols :
    /\ HeightMapOf(results[n])[idx] = MAX_Y
    /\ CtxOf(results[n]).p.baseHeight > TERRAIN.baseHeight

\* C7 (totality): every call returns a chunk, with data of length
\* CHUNK_SIZE * CHUNK_SIZE * HEIGHT and heightMap and biomeMap of length
\* CHUNK_SIZE * CHUNK_SIZE; no call throws.
C7_Totality ==
  \A n \in DOMAIN results :
    /\ results[n].kind = "chunk"
    /\ DOMAIN DataOf(results[n]) = DataIdx
    /\ DOMAIN HeightMapOf(results[n]) = Cols
    /\ DOMAIN BiomeMapOf(results[n]) = Cols

\* Call b is call a with one opts field malformed (NaN) and nothing else
\* set, and call a leaves opts out.
MalformedOf(a, b) ==
  /\ ArgList[a].kind = "undefined" /\ ArgList[b].kind = "object"
  /\ ArgList[a].chunkX = ArgList[b].chunkX
  /\ ArgList[a].chunkZ = ArgList[b].chunkZ
  /\ ArgList[a].seed = ArgList[b].seed
  /\ \A f \in DOMAIN ArgList[b].opts : IsNaN(ArgList[b].opts[f])

\* C8 (option fallback): a call with a malformed opts field returns the
\* chunk the call with the defaults returns.
C8_OptionFallback ==
  \A i \in Chunks : \A j \in Chunks :
    MalformedOf(results[i].arg, results[j].arg) =>
      /\ DataOf(results[i]) = DataOf(results[j])
      /\ HeightMapOf(results[i]) = HeightMapOf(results[j])
      /\ BiomeMapOf(results[i]) = BiomeMapOf(results[j])

\* C9 (fresh outputs): no step changes an element of the data, heightMap or
\* biomeMap of a chunk already returned, and the data a running call writes
\* to is the data of no returned chunk.
C9_FreshOutputs ==
  [][\A n \in Chunks :
       /\ DataOf(results[n])' = DataOf(results[n])
       /\ HeightMapOf(results[n])' = HeightMapOf(results[n])
       /\ BiomeMapOf(results[n])' = BiomeMapOf(results[n])
       /\ \A w \in Workers : pc[w] # "idle" => loc[w].data # results[n].data
    ]_vars

\* C9's case: a chunk has been returned and a later call on the same module
\* has filled the caches and its data with something else.
C9_Witness ==
  \E n \in Chunks : \E w \in Workers :
    /\ pc[w] = "return" /\ ModuleOf(w) = results[n].heightMap.m
    /\ cache[ModuleOf(w)].heightMapCache # HeightMapOf(results[n])
    /\ cache[ModuleOf(w)].biomeMapCache # BiomeMapOf(results[n])
    /\ heap[loc[w].data] # DataOf(results[n])

\* C10 (concurrent generation): with one module instance per worker, under
\* every interleaving of the two workers' steps a call in flight holds in
\* its data, its tree list and its module's caches what the same call holds
\* at that point when it runs alone, and every returned chunk is the chunk
\* the call returns alone.
C10_ConcurrentSafe ==
  /\ \A n \in Chunks : SameAsAlone(results[n])
  /\ \A w \in Workers :
       pc[w] # "idle" =>
         /\ heap[loc[w].data] = alone[w].data
         /\ loc[w].treesToPlace = alone[w].treesToPlace
         /\ pc[w] \notin {"phase1", "phase2"} =>
              /\ cache[ModuleOf(w)].heightMapCache
                   = alone[w].cache.heightMapCache
              /\ cache[ModuleOf(w)].biomeMapCache
                   = alone[w].cache.biomeMapCache

\* C10's case: a worker has returned its chunk while the other worker was
\* in the middle of a call for another chunk.
C10_Witness ==
  \E n \in Chunks : \E w \in Workers :
    /\ results[n].worker # w
    /\ pc[w] \in {"phase3", "scan", "place", "cactus", "vegetation"}
    /\ call[w] # results[n].arg

\* The scan cells of the call for chunk a that are columns of the chunk of
\* the call b.
CellsInside(a, b) ==
  {k \in ScanCells :
     InChunk(Ctx(ArgList[b]), ScanX(Ctx(ArgList[a]), k),
             ScanZ(Ctx(ArgList[a]), k))}

\* C11 (one pipeline inside and outside the chunk): the surface height and
\* the biome the decoration pass of one chunk recomputes for a column of an
\* adjacent chunk are the values that chunk stores for the column in its
\* heightMap and biomeMap.
C11_SamePipeline ==
  \A i \in Chunks : \A j \in Chunks :
    Adjacent(results[i].arg, results[j].arg) =>
      \A k \in CellsInside(results[i].arg, results[j].arg) :
        LET gi == CtxOf(results[i])
            gj == CtxOf(results[j])
            idx == LocalIdx(gj, ScanX(gi, k), ScanZ(gi, k))
        IN  /\ ScanTable[results[i].arg][k].height = HeightMapOf(results[j])[idx]
            /\ ScanTable[results[i].arg][k].biome = BiomeMapOf(results[j])[idx]

\* C12 (index bijection): getIndex sends the voxels of a chunk one-to-one
\* onto 0 .. CHUNK_SIZE * CHUNK_SIZE * HEIGHT - 1: the index of a voxel is
\* in that range, the voxel is recovered from its index, and there are as
\* many voxels as indices.
C12_IndexBijection ==
  /\ Cardinality(Voxels) = Cardinality(DataIdx)
  /\ (probe.fn = "getIndex" /\ probe.done) =>
       /\ probe.out \in DataIdx
       /\ (probe.out \div HEIGHT) \div CHUNK_SIZE = probe.arg.lx
       /\ (probe.out \div HEIGHT) % CHUNK_SIZE = probe.arg.lz
       /\ (probe.out % HEIGHT) + MIN_Y = probe.arg.ly

\* The index of the last voxel of the chunk has been computed.
C12_Witness ==
  /\ probe.fn = "getIndex" /\ probe.done
  /\ probe.arg = [lx |-> CHUNK_SIZE - 1, ly |-> MAX_Y, lz |-> CHUNK_SIZE - 1]
  /\ probe.out = Size - 1

\* The trees of r rooted in a column of its own chunk.
RootedIn(r) == {t \in TreesOf(r) : InChunk(CtxOf(r), t.wx, t.wz)}

\* The voxel of world height y in the column of tree t is wood.
WoodAt(r, t, y) ==
  /\ y \in MIN_Y .. MAX_Y
  /\ DataOf(r)[LocalIdx(CtxOf(r), t.wx, t.wz) * HEIGHT + (y - MIN_Y)] = 6

\* The wood in the column of t is a run of n voxels from t.height + 1 up.
TrunkRun(r, t, n) ==
  /\ \A y \in (t.height + 1) .. (t.height + n) : WoodAt(r, t, y)
  /\ ~WoodAt(r, t, t.height + n + 1)

\* C13 (trunk shape): every tree rooted in a generated chunk has, in its
\* column, a contiguous vertical run of wood that starts at height + 1 and
\* whose length is within [treeMinHeight, treeMaxHeight], the values of opts
\* or the module defaults, in every biome that permits trees.
C13_TrunkShape ==
  \A n \in Chunks : \A t \in RootedIn(results[n]) :
    \E len \in CtxOf(results[n]).p.treeMinHeight
                .. CtxOf(results[n]).p.treeMaxHeight :
      TrunkRun(results[n], t, len)

\* Amplitude and frequency of octave i: persistence^i and lacunarity^i.
RECURSIVE Power(_, _)
Power(base, i) == IF i = 0 THEN ONE ELSE (Power(base, i - 1) * base) \div ONE

\* The noise3 sample of octave i, weighted by its amplitude.
OctaveTerm(v, i) ==
  (noise3(v.pseed, MulK(v.x, Power(v.lacunarity, i)),
          MulK(v.y, Power(v.lacunarity, i)),
          MulK(v.z, Power(v.lacunarity, i))) * Power(v.persistence, i))
  \div ONE

\* Sums over the octaves 0 .. n - 1.
RECURSIVE WeightedSum(_, _)
WeightedSum(v, n) ==
  IF n = 0 THEN 0 ELSE WeightedSum(v, n - 1) + OctaveTerm(v, n - 1)

RECURSIVE AmplitudeSum(_, _)
AmplitudeSum(v, n) ==
  IF n = 0 THEN 0 ELSE AmplitudeSum(v, n - 1) + Power(v.persistence, n - 1)

\* C14 (normalised octave noise): octaveNoise returns the amplitude-weighted
\* sum of its noise3 samples divided by the sum of the amplitudes, a number
\* in [-1, 1], for every octave count a caller can pass, none included.
C14_NormalisedRange ==
  (probe.fn = "octaveNoise" /\ probe.done) =>
    /\ ~IsNaN(probe.out)
    /\ probe.out >= 0 - ONE /\ probe.out <= ONE
    /\ probe.out = (WeightedSum(probe.arg, probe.arg.octaves) * ONE)
                      \div AmplitudeSum(probe.arg, probe.arg.octaves)

\* The scratch caches the step at position p reads, at every column:
\* PHASE 2 reads the climate caches (chunkGen.js:469-471, 537-539), PHASE 3
\* and the tree scan read heights and biomes (624-625, 736, 776), the cactus
\* and vegetation passes read those and the vegetation density (925-926,
\* 938, 960-961, 978), the return copies heights and biomes (1050-1051).
ReadsAt(p) ==
  IF p = "phase2"
  THEN {"temperatureCache", "humidityCache", "continentalnessCache"}
  ELSE IF p \in {"phase3", "scan", "return"}
  THEN {"heightMapCache", "biomeMapCache"}
  ELSE IF p \in {"cactus", "vegetation"}
  THEN {"heightMapCache", "biomeMapCache", "vegetationDensityCache"}
  ELSE {}

\* C15 (write before read): within one generateChunk call every entry of a
\* module-level scratch cache that a step reads has been written earlier in
\* that call, so no value left by an earlier call is read.
C15_WriteBeforeRead ==
  \A w \in Workers : \A f \in ReadsAt(pc[w]) : \A idx \in Cols :
    alone[w].stale[f][idx] # Stale

\* A second call on the module is about to read the climate caches while
\* the height and biome caches still hold what the first call, for other
\* arguments, left there.
C15_Witness ==
  /\ pc[1] = "phase2" /\ calls[1] = 2
  /\ Chunks # {} /\ results[1].kind = "chunk" /\ results[1].arg # call[1]
  /\ cache[ModuleOf(1)].heightMapCache = HeightMapOf(results[1])
  /\ cache[ModuleOf(1)].heightMapCache # alone[1].cache.heightMapCache

\* C16 (biome cascade): getBiome returns a biome for every input, by the
\* first rule that matches: (1) continentalness < 0.25 is ocean; (2) else
\* continentalness < 0.38 with height in [seaLevel - 3, seaLevel + 4] is
\* swamp when humidity > 0.7 and temperature > 0.4, and beach otherwise;
\* (3) else continentalness > 0.85 with erosion < 0.4 is snowy when
\* temperature < 0.35 and mountains otherwise; (4) else height above
\* seaLevel + 60 is snowy when temperature < 0.4 and mountains otherwise;
\* (5) else one of snowy, forest, plains, swamp, savanna, desert.
C16_BiomeCascade ==
  (probe.fn = "getBiome" /\ probe.done) =>
    LET a == probe.arg
        r1 == a.continentalness < 250
        r2 == /\ a.continentalness < 380
              /\ a.height \in (a.seaLevel - 3) .. (a.seaLevel + 4)
        r3 == a.continentalness > 850 /\ a.erosion < 400
        r4 == a.height > a.seaLevel + 60
    IN  /\ probe.out \in {BIOME[n] : n \in DOMAIN BIOME}
        /\ r1 => probe.out = BIOME.OCEAN
        /\ (~r1 /\ r2) =>
             probe.out = IF a.humidity > 700 /\ a.temperature > 400
                         THEN BIOME.SWAMP ELSE BIOME.BEACH
        /\ (~r1 /\ ~r2 /\ r3) =>
             probe.out = IF a.temperature < 350
                         THEN BIOME.SNOWY ELSE BIOME.MOUNTAINS
        /\ (~r1 /\ ~r2 /\ ~r3 /\ r4) =>
             probe.out = IF a.temperature < 400
                         THEN BIOME.SNOWY ELSE BIOME.MOUNTAINS
        /\ (~r1 /\ ~r2 /\ ~r3 /\ ~r4) =>
             probe.out \in {BIOME.SNOWY, BIOME.FOREST, BIOME.PLAINS,
                            BIOME.SWAMP, BIOME.SAVANNA, BIOME.DESERT}

\* getBiome has classified a high, uneroded inland column whose temperature
\* lies between the thresholds of rules (3) and (4): rule (3) decided.
C16_Witness ==
  /\ probe.fn = "getBiome" /\ probe.done
  /\ probe.arg.continentalness = 900 /\ probe.arg.erosion = 300
  /\ probe.arg.height = probe.arg.seaLevel + 61
  /\ probe.arg.temperature = 370
  /\ probe.out = BIOME.MOUNTAINS

\* The ids of the ores.
OreIds == {ORES[i][1] : i \in DOMAIN ORES}

\* The voxels of the surface and subsurface layers of column idx of r: the
\* depths 0 .. 4 below the terrain height.
ShallowDepths(r, idx) ==
  {d \in 0 .. 4 : HeightMapOf(r)[idx] - d >= MIN_Y}

ShallowVoxel(r, idx, d) ==
  DataOf(r)[idx * HEIGHT + (HeightMapOf(r)[idx] - d - MIN_Y)]

\* C17 as stated (interior only): ore replacement and cave carving reach
\* only voxels more than 4 below the surface: the surface voxel and the
\* four subsurface voxels of a column are never ore and never hollowed to
\* air, in every column and for every opts.
C17_InteriorOnly ==
  \A n \in Chunks : \A idx \in Cols :
    \A d \in ShallowDepths(results[n], idx) :
      /\ ShallowVoxel(results[n], idx, d) \notin OreIds
      /\ ShallowVoxel(results[n], idx, d) # 0

\* C17 (ores in the interior, caves up to the surface): the surface voxel
\* and the four subsurface voxels of a column are never ore; such a voxel
\* is air only by cave carving, which needs y <= caveMaxY, a terrain height
\* above sea level, and either caveOpenToSurface or a depth of at least 3.
C17_ShallowLayers ==
  \A n \in Chunks : \A idx \in Cols :
    \A d \in ShallowDepths(results[n], idx) :
      LET p == CtxOf(results[n]).p
          h == HeightMapOf(results[n])[idx]
      IN  /\ ShallowVoxel(results[n], idx, d) \notin OreIds
          /\ ShallowVoxel(results[n], idx, d) = 0 =>
               /\ Le(h - d, p.caveMaxY)
               /\ h > p.seaLevel
               /\ p.caveOpenToSurface # 0 \/ d >= 3

\* One returned chunk has a column whose surface voxel is carved to air
\* with ore deeper in the same column, and another, generated with
\* caveOpenToSurface off, has a column at or below caveMaxY and above sea
\* level whose shallow voxels are all solid.
C17_Witness ==
  /\ \E n \in Chunks : \E idx \in Cols :
       /\ ShallowVoxel(results[n], idx, 0) = 0
       /\ \E y \in MIN_Y .. (HeightMapOf(results[n])[idx] - 5) :
            DataOf(results[n])[idx * HEIGHT + (y - MIN_Y)] \in OreIds
  /\ \E n \in Chunks : \E idx \in Cols :
       /\ CtxOf(results[n]).p.caveOpenToSurface = 0
       /\ HeightMapOf(results[n])[idx] > CtxOf(results[n]).p.seaLevel
       /\ HeightMapOf(results[n])[idx] <= CtxOf(results[n]).p.caveMaxY
       /\ \A d \in ShallowDepths(results[n], idx) :
            ShallowVoxel(results[n], idx, d) # 0

\* The columns of r whose terrain is at or below sea level.
WaterColumns(r) ==
  {idx \in Cols : HeightMapOf(r)[idx] <= CtxOf(r).p.seaLevel}

\* C18 (no flooded caves): in every column whose terrain height is at or
\* below sea level no voxel from MIN_Y up to the terrain height is air,
\* whatever the cave noise and threshold.
C18_NoFloodedCaves ==
  \A n \in Chunks : \A idx \in WaterColumns(results[n]) :
    \A y \in MIN_Y .. HeightMapOf(results[n])[idx] :
      DataOf(results[n])[idx * HEIGHT + (y - MIN_Y)] # 0

\* A returned chunk has a column at or below sea level with a voxel, not
\* bedrock, where the cave noise passes the carving test, so that only the
\* flood guard keeps it solid.
C18_Witness ==
  \E n \in Chunks : \E idx \in WaterColumns(results[n]) :
    \E y \in MIN_Y .. HeightMapOf(results[n])[idx] :
      /\ caveCarves(results[n].arg, idx, y, CtxOf(results[n]).p.seaLevel + 1)
      /\ DataOf(results[n])[idx * HEIGHT + (y - MIN_Y)] \notin {0, 14}

\* The voxel of column idx of r at world height y is the ice cap of a
\* snowy column under water.
IceCase(r, idx, y) ==
  /\ BiomeMapOf(r)[idx] = BIOME.SNOWY
  /\ HeightMapOf(r)[idx] < CtxOf(r).p.seaLevel
  /\ y = CtxOf(r).p.seaLevel

\* C19 (water and ice): a voxel is ice exactly when its column's biome is
\* snowy, the terrain height is below sea level and y is sea level; it is
\* water exactly when height < y <= seaLevel and it is not that ice voxel;
\* so there is no water or ice at or below the terrain height nor above
\* sea level.
C19_WaterAndIce ==
  \A n \in Chunks : \A idx \in Cols : \A y \in MIN_Y .. MAX_Y :
    LET r == results[n]
        v == DataOf(r)[idx * HEIGHT + (y - MIN_Y)]
    IN  /\ v = 18 <=> IceCase(r, idx, y)
        /\ v = 4 <=> /\ HeightMapOf(r)[idx] < y
                     /\ y <= CtxOf(r).p.seaLevel
                     /\ ~IceCase(r, idx, y)

\* C20 (bedrock floor): a voxel is bedrock exactly when y <= MIN_Y + 4,
\* y <= the column's height and seededRandom(wx, wz + y * 1000, seed) is
\* below (MIN_Y + 5 - y) / 5; the chance is 1 at y = MIN_Y, so the bottom
\* voxel of every column is bedrock, and there is no bedrock above
\* MIN_Y + 4.
C20_BedrockFloor ==
  \A n \in Chunks : \A idx \in Cols :
    LET r == results[n]
        g == CtxOf(r)
        voxel(y) == DataOf(r)[idx * HEIGHT + (y - MIN_Y)]
    IN  /\ \A y \in MIN_Y .. MAX_Y :
             voxel(y) = 14 <=>
               /\ y <= MIN_Y + 4
               /\ y <= HeightMapOf(r)[idx]
               /\ seededRandom(WorldX(g, idx), WorldZ(g, idx) + y * 1000,
                               g.seed) * 5 < (MIN_Y + 5 - y) * ONE
        /\ voxel(MIN_Y) = 14
        /\ \A y \in (MIN_Y + 5) .. MAX_Y : voxel(y) # 14

\* The block choice has been made for the height voxel of a column.
AtHeightVoxel ==
  probe.fn = "solidBlock" /\ probe.done /\ probe.arg.depth = 0

\* The biome's underwater and dry surface blocks as the specification
\* lists them.
UnderwaterSurface(biome) ==
  IF biome = BIOME.DESERT THEN 16
  ELSE IF biome = BIOME.SWAMP THEN 15
  ELSE IF biome = BIOME.OCEAN THEN 9 ELSE 5

DrySurface(biome) ==
  IF biome \in {BIOME.DESERT, BIOME.BEACH} THEN 5
  ELSE IF biome = BIOME.SNOWY THEN 8 ELSE 3

\* C21 as stated (surface block by submersion): the block chosen for the
\* height voxel is the biome's underwater surface block in every column
\* whose height is below sea level, and the biome's dry surface block in
\* every other column.
C21_SurfaceBySubmersion ==
  AtHeightVoxel =>
    probe.out = IF probe.arg.height < probe.arg.seaLevel
                THEN UnderwaterSurface(probe.arg.biome)
                ELSE DrySurface(probe.arg.biome)

\* C21 (surface block by biome and ocean or beach submersion): the block
\* chosen for the height voxel is the underwater surface block, gravel for
\* ocean and sand for beach, only when the biome is ocean or beach and the
\* height is below sea level; in every other column, submerged or not, it
\* is the biome's dry surface block.
C21_SurfaceBlock ==
  AtHeightVoxel =>
    probe.out = IF /\ probe.arg.biome \in {BIOME.OCEAN, BIOME.BEACH}
                   /\ probe.arg.height < probe.arg.seaLevel
                THEN (IF probe.arg.biome = BIOME.OCEAN THEN 9 ELSE 5)
                ELSE DrySurface(probe.arg.biome)

\* The block for the height voxel of a swamp column below sea level has
\* been chosen, and it is grass.
C21_Witness ==
  /\ AtHeightVoxel
  /\ probe.arg.biome = BIOME.SWAMP
  /\ probe.arg.height < probe.arg.seaLevel
  /\ probe.out = 3

\* The columns of r where no tree may be rooted.
TreelessColumns(r) ==
  {idx \in Cols :
     \/ HeightMapOf(r)[idx] <= CtxOf(r).p.seaLevel
     \/ BiomeMapOf(r)[idx] \in {BIOME.DESERT, BIOME.BEACH, BIOME.OCEAN}}

\* C22 (where trees root): a returned chunk has no wood voxel in a column
\* whose heightMap value is at or below sea level or whose biomeMap value
\* is desert, beach or ocean.
C22_NoWoodInTreelessColumns ==
  \A n \in Chunks : \A idx \in TreelessColumns(results[n]) :
    \A y \in MIN_Y .. MAX_Y :
      DataOf(results[n])[idx * HEIGHT + (y - MIN_Y)] # 6

\* Squared distance of two roots, the spacing of a candidate, and scan
\* order: wx ascending, then wz ascending.
Dist2(t, u) == (t.wx - u.wx) * (t.wx - u.wx) + (t.wz - u.wz) * (t.wz - u.wz)

Spacing(t) == IF t.biome = BIOME.FOREST THEN 3 ELSE 5

ScannedBefore(t, u) == t.wx < u.wx \/ (t.wx = u.wx /\ t.wz < u.wz)

\* The candidates of the scan worker w has finished: the cells where
\* shouldTreeSpawnAt returns a tree.
Candidates(w) ==
  {treeInfoOf(shouldTreeSpawnAt(call[w], cache[ModuleOf(w)], k)) :
     k \in {c \in ScanCells :
              shouldTreeSpawnAt(call[w], cache[ModuleOf(w)], c).ok}}

\* The roots the scan of worker w accepted.
Accepted(w) == {loc[w].treesToPlace[n] : n \in DOMAIN loc[w].treesToPlace}

\* C23 (minimum-distance exclusion): when the scan is done, the accepted
\* list is in scan order, and a candidate is in it exactly when its squared
\* distance to every root accepted before it is at least s * s, s being 3
\* for a forest candidate and 5 otherwise; so no two accepted roots are at
\* squared distance less than 9.
C23_MinimumDistance ==
  \A w \in Workers :
    pc[w] = "place" =>
      LET list == loc[w].treesToPlace IN
      /\ \A i \in DOMAIN list : \A j \in DOMAIN list :
           i < j => ScannedBefore(list[i], list[j])
      /\ Accepted(w) \subseteq Candidates(w)
      /\ \A t \in Candidates(w) :
           t \in Accepted(w) <=>
             \A u \in Accepted(w) :
               ScannedBefore(u, t) => Dist2(t, u) >= Spacing(t) * Spacing(t)
      /\ \A t \in Accepted(w) : \A u \in Accepted(w) :
           t # u => Dist2(t, u) >= 9

\* A scan is done that accepted a forest root closer than 5 to an earlier
\* root and rejected some candidate.
C23_Witness ==
  \E w \in Workers :
    /\ pc[w] = "place"
    /\ Candidates(w) \ Accepted(w) # {}
    /\ \E t \in Accepted(w) : \E u \in Accepted(w) :
         ScannedBefore(u, t) /\ t.biome = BIOME.FOREST /\ Dist2(t, u) < 25

\* C24 (canopy is non-destructive): the tree placement of a call stores
\* leaves only into voxels that were air; a voxel that was not air before
\* the placement keeps its block unless a trunk is stored into it, and every
\* trunk voxel is still wood after the leaves of all trees are placed.
C24_LeavesOnlyInAir ==
  [][\A w \in Workers :
       (pc[w] = "place" /\ pc'[w] = "cactus") =>
         LET d == loc[w].data
             g == Ctx(ArgList[call[w]])
             list == loc[w].treesToPlace
         IN  /\ \A i \in 0 .. Size - 1 :
                  /\ heap'[d][i] = 7 => heap[d][i] = 0
                  /\ heap[d][i] # 0 => heap'[d][i] \in {heap[d][i], 6}
             /\ \A n \in DOMAIN list : \A tw \in trunkWrites(g, list[n]) :
                  heap'[d][tw.i] = 6]_vars

\* The placement of a call is done: it stored a leaf, and a leaf position
\* that passed the gap test holds a block that is neither air nor leaves.
C24_Witness ==
  \E w \in Workers :
    /\ pc[w] = "cactus"
    /\ \E i \in 0 .. Size - 1 : heap[loc[w].data][i] = 7
    /\ \E n \in DOMAIN loc[w].treesToPlace :
         \E c \in leafCandidates(Ctx(ArgList[call[w]]),
                                 loc[w].treesToPlace[n]) :
           /\ c.i >= 0 /\ c.i < Size
           /\ hash3(c.wx, c.y, c.wz) > 120
           /\ heap[loc[w].data][c.i] \notin {0, 7}

\* C25 (vegetation write conditions): every voxel the vegetation pass of a
\* call changes is the voxel at y = height + 1 of its own column, the column
\* has a height above sea level and a biome other than desert, beach and
\* ocean, the voxel at y = height is grass or snowy grass, the changed voxel
\* was air, and it now holds tall grass, a rose bush, a sunflower, or a dead
\* bush in savanna.
C25_VegetationWrites ==
  [][\A w \in Workers :
       (pc[w] = "vegetation" /\ pc'[w] = "return") =>
         LET d == loc[w].data
             c == cache[ModuleOf(w)]
             g == Ctx(ArgList[call[w]])
         IN  \A i \in 0 .. Size - 1 :
               heap'[d][i] # heap[d][i] =>
                 LET idx == i \div HEIGHT
                     y == (i % HEIGHT) + MIN_Y
                     height == c.heightMapCache[idx]
                     biome == c.biomeMapCache[idx]
                 IN  /\ y = height + 1
                     /\ Gt(height, g.p.seaLevel)
                     /\ biome \notin {BIOME.DESERT, BIOME.BEACH, BIOME.OCEAN}
                     /\ heap[d][i - 1] \in {3, 8}
                     /\ heap[d][i] = 0
                     /\ heap'[d][i] \in {20, 21, 22, 23}
                     /\ heap'[d][i] = 20 => biome = BIOME.SAVANNA]_vars

\* The vegetation pass of a call is done and its chunk holds a plant above
\* a grass or snowy grass voxel.
C25_Witness ==
  \E w \in Workers :
    /\ pc[w] = "return"
    /\ \E i \in 1 .. Size - 1 :
         /\ heap[loc[w].data][i] \in {21, 22, 23}
         /\ heap[loc[w].data][i - 1] \in {3, 8}

\* The fractions computed for a column whose continentalness is in one of
\* the three ranges that have a fraction.
FractionsDone ==
  probe.fn = "fractions" /\ probe.done /\ probe.arg.continentalness >= 250

InUnit(t) == t >= 0 /\ t <= ONE

\* C26 as stated (fractions stay in range): for continentalness over
\* [0, 1.5] the ramp fraction of every range, and the mountain, ocean-floor
\* and swamp influence factors, are within [0, 1].
C26_FractionsInUnit ==
  FractionsDone =>
    /\ InUnit(probe.out.t)
    /\ InUnit(probe.out.mountainInfluence)
    /\ InUnit(probe.out.oceanInfluence)
    /\ InUnit(probe.out.swampInfluence)

\* C26 (fractions stay in range): the ramp fractions of the coastal and the
\* land range and the mountain, ocean-floor and swamp influence factors are
\* within [0, 1]; the fraction of the highland range, continentalness from
\* 0.8 to 1.5, is within [0, 1.4].
C26_FractionRanges ==
  FractionsDone =>
    /\ probe.arg.continentalness < 800 => InUnit(probe.out.t)
    /\ probe.arg.continentalness >= 800 =>
         probe.out.t >= 0 /\ probe.out.t <= (14 * ONE) \div 10
    /\ InUnit(probe.out.mountainInfluence)
    /\ InUnit(probe.out.oceanInfluence)
    /\ InUnit(probe.out.swampInfluence)

\* The fractions of a column of continentalness 1.5 under mountain
\* parameters: the highland fraction is above 1 and the mountain influence
\* is 1.
C26_Witness ==
  /\ FractionsDone
  /\ probe.arg.continentalness = 1500
  /\ probe.out.t > ONE
  /\ probe.out.mountainInfluence = ONE

\* C27 (permutation table well-formedness): every table createPerlin builds
\* has 512 entries in 0..255, holds each of 0..255 exactly once in its first
\* 256 entries, and repeats them in the second 256; the shuffle draws, at
\* index i, an index in 0..i; and two tables built from the same seed are
\* equal.
C27_PermutationTable ==
  probe.fn = "createPerlin" =>
    /\ \A n \in DOMAIN probe.out :
         LET t == probe.out[n] IN
         /\ DOMAIN t.p = 0 .. 511
         /\ \A i \in 0 .. 511 : t.p[i] \in 0 .. 255
         /\ \A v \in 0 .. 255 :
              Cardinality({i \in 0 .. 255 : t.p[i] = v}) = 1
         /\ \A i \in 0 .. 255 : t.p[i + 256] = t.p[i]
         /\ \A i \in 1 .. 255 : t.js[i] \in 0 .. i
    /\ \A n \in DOMAIN probe.out : \A k \in DOMAIN probe.out :
         probe.out[n] = probe.out[k]

\* Two tables are built from one seed, and the shuffle moved entries: the
\* table is not the identity.
C27_Witness ==
  /\ probe.fn = "createPerlin" /\ probe.done
  /\ Len(probe.out) = 2
  /\ \E i \in 0 .. 255 : probe.out[2].p[i] # i

\* A call is under way on the worker of Spec or a message is waiting for
\* it: the states where Next is enabled.  Every step of Next changes pc or
\* calls.
Pending == pc[1] # "idle" \/ calls[1] < MaxCalls

PcValues ==
  {"idle", "phase1", "phase2", "phase3", "scan", "place", "cactus",
   "vegetation", "return"}

\* A step that moves the worker on from a pending state.
Advance ==
  /\ Pending
  /\ pc' \in [Workers -> PcValues]
  /\ calls' \in [Workers -> 0 .. MaxCalls]

\* The calls of Spec under the scheduling of part_000:8-23: a call that was
\* begun runs to its return, and a waiting message is taken.  This is weak
\* fairness of Next, stated on the variables every step of Next changes.
FairSpec == Spec /\ WF_<<pc, calls>>(Advance)

\* Column idx of the chunk worker w is generating is a snowy column above
\* sea level.
SnowyAboveSea(w, idx) ==
  /\ cache[ModuleOf(w)].biomeMapCache[idx] = BIOME.SNOWY
  /\ Gt(cache[ModuleOf(w)].heightMapCache[idx],
        Ctx(ArgList[call[w]]).p.seaLevel)

\* The voxel at y = height + 1 of column idx of worker w, Undefined when the
\* index is past the array.
AboveOf(w, idx) ==
  Load(heap[loc[w].data],
       idx * HEIGHT + (cache[ModuleOf(w)].heightMapCache[idx] + 1 - MIN_Y))

\* A vegetation pass has left tall grass at y = height + 1 of a snowy column
\* above sea level.
SnowyGrassPlaced ==
  \E w \in Workers : \E idx \in Cols :
    pc[w] = "return" /\ SnowyAboveSea(w, idx) /\ AboveOf(w, idx) = 21

SnowCovered ==
  \A w \in Workers : \A idx \in Cols :
    (pc[w] \in {"scan", "place", "cactus", "vegetation", "return"}
       /\ SnowyAboveSea(w, idx)) => AboveOf(w, idx) # 0

\* World column (wx, wz) is in the scan window of the generation with
\* closure g (chunkGen.js:836-837).
InWindow(g, wx, wz) ==
  /\ wx >= g.chunkWorldX - TREE_SCAN_MARGIN
  /\ wx < g.chunkWorldX + CHUNK_SIZE + TREE_SCAN_MARGIN
  /\ wz >= g.chunkWorldZ - TREE_SCAN_MARGIN
  /\ wz < g.chunkWorldZ + CHUNK_SIZE + TREE_SCAN_MARGIN

\* The scan of r accepted a root in world column (wx, wz).
AcceptedAt(r, wx, wz) == \E t \in TreesOf(r) : t.wx = wx /\ t.wz = wz

\* C29 (chunk-independent tree acceptance): for two chunks of one world, a
\* column that lies in the scan windows of both generations is accepted as
\* a tree root by both or by neither.
C29_SameAcceptance ==
  \A i \in Chunks : \A j \in Chunks :
    Adjacent(results[i].arg, results[j].arg) =>
      \A k \in ScanCells :
        LET gi == CtxOf(results[i])
            wx == ScanX(gi, k)
            wz == ScanZ(gi, k)
        IN  InWindow(CtxOf(results[j]), wx, wz) =>
              (AcceptedAt(results[i], wx, wz)
                 <=> AcceptedAt(results[j], wx, wz))

\* C30 (trees on solid ground): in every returned chunk, the voxel at
\* y = heightMap of the root column of every tree rooted in the chunk is
\* not air.
C30_TrunkOnGround ==
  \A n \in Chunks :
    \A t \in RootedIn(results[n]) :
      LET r == results[n]
          idx == LocalIdx(CtxOf(r), t.wx, t.wz)
      IN  DataOf(r)[idx * HEIGHT + (HeightMapOf(r)[idx] - MIN_Y)] # 0

====
